---------------------------- MODULE Spec2Model ----------------------------
(***************************************************************************)
(* Model of the LumoLights LED core (210_LED_CORE.h), its linker           *)
(* (200_LED_LINKER.h), the device bridge (100_DEVICE_LINKER.h,             *)
(* 110_DEVICE.h) and the console setters (300_CONSOLE.h).                  *)
(*                                                                         *)
(* Arithmetic.  The program computes in float; the model computes in exact *)
(* fixed-point / rational arithmetic on integers:                          *)
(*   - a live or staged colour channel x        is the integer x * ColorQ  *)
(*   - live or staged brightness x              is the integer x * BrightQ *)
(*   - the on/off factor x                      is the integer x * OnOffQ  *)
(*   - a gradient shape parameter x in [0,1]    is the integer x * GradQ   *)
(*   - an effect amplitude of the Config x      is the integer x * ScaleQ  *)
(*   - a Scale multiplier and an effect generator's prev / next / output   *)
(*     are exact rationals <<numerator, denominator>>; <<0, 0>> is NaN     *)
(* Colors[] and Pixels[] hold bytes.  A float -> uint8_t cast is the       *)
(* truncation it is in C.  Rounding errors of float32 are not modelled.    *)
(***************************************************************************)
EXTENDS Integers, Sequences, FiniteSets, TLC

VARIABLES
  cfg,     \* LED::CORE::Config singleton
  v,       \* LED::CORE::Vars singleton
  s,       \* LED::CORE::State singleton
  mirror,  \* the bridge's Mirror instance (and the RGBW conversion flag)
  now,     \* millis()
  last,    \* the operation that ran last (a tuple: name, arguments)
  ret,     \* the value the last Fade() call returned
  calls,   \* number of operations run since Init
  start,   \* the Vars at Init (history, for the convergence property)
  g_lastSavedCounter,  \* SETTINGS: changeCounter of the Config saved or loaded last
  prefs,   \* the blob Preferences holds under the key "led_cfg"
  g_autoSaveDelayMs,  \* SETTINGS: the debounce interval of the autosave
  hardware,  \* TRUE once HAL::InitLedHardware() has run
  stamp,   \* the operation that wrote lastModifiedMs last, and its time (history)
  console, \* CONSOLE: command buffer and pending restart; the serial input
  uptime   \* milliseconds since Init, now and at each gate's last firing (history)

\* what the settings module and the boot sequence own
persisted == <<g_lastSavedCounter, prefs, g_autoSaveDelayMs, hardware>>

vars == <<cfg, v, s, mirror, now, last, ret, calls, start, persisted, stamp, console,
          uptime>>

---------------------------------------------------------------------------
(* Units and program constants *)

\* 255: the top of every colour channel and of brightness
ByteMax == 255
\* units per 1.0 of a colour channel: one unit is 5e-6, half the 1e-5 of Fade's
\* change test
ColorQ == 200000
\* units per 1.0 of brightness: one unit is 0.05, so (level / 100) * 255 is exact
BrightQ == 20
\* units per 1.0 of the on/off factor: one unit is the default onoffIncrement 0.01
OnOffQ == 100
\* units per 1.0 of a gradient shape parameter: one unit is 0.05
GradQ == 20
\* units per 1.0 of an effect amplitude: one unit is 0.1
ScaleQ == 10
\* 1 / 1e-5: the denominator of Fade's change threshold
EpsDen == 100000

ColorMax == ByteMax * ColorQ
BrightMax == ByteMax * BrightQ

(* Bounds of the model *)

\* largest pixel count (LED_COUNT) a build of the model has
MaxCount == 10
\* pixel count of the stateful specifications
LedCount == 3
\* operations per behaviour of Spec and SpecConsole
MaxOps == 4
\* Fade calls per behaviour of SpecFade
MaxFadeCalls == 12
\* Effect() calls and TOGGLE EFFECT commands of a run of SpecEffect
MaxEffectCalls == 7

Chan == {"R", "G", "B", "W"}

Abs(x) == IF x < 0 THEN -x ELSE x

RECURSIVE GCD(_, _)
GCD(a, b) == IF b = 0 THEN a ELSE GCD(b, a % b)

\* ceil(a / b) for a >= 0, b > 0
CeilDiv(a, b) == (a + b - 1) \div b

Pix(r, g, b, w) == [R |-> r, G |-> g, B |-> b, W |-> w]

\* a colour given in whole units on each channel, as a Pixel_float
PixF(r, g, b, w) == Pix(r * ColorQ, g * ColorQ, b * ColorQ, w * ColorQ)

\* Arduino's constrain(x, low, high)
constrain(x, low, high) == IF x < low THEN low ELSE IF x > high THEN high ELSE x

---------------------------------------------------------------------------
(* Gradient modes and interpolation modes *)

LINEAR == "LINEAR"
LINEAR_PADDING == "LINEAR_PADDING"
SINGLE_COLOR == "SINGLE_COLOR"
MIDPOINT_SPLIT == "MIDPOINT_SPLIT"
EDGE_CENTER == "EDGE_CENTER"
GradientMode == {LINEAR, LINEAR_PADDING, SINGLE_COLOR, MIDPOINT_SPLIT, EDGE_CENTER}
InterpolationMode == {"Linear", "Smooth"}

---------------------------------------------------------------------------
(* Construction: the member initialisers of Config, Vars, State and Mirror *)

ConfigDefaults ==
  [ colorOneStaging |-> PixF(0, 0, 0, 0),
    colorTwoStaging |-> PixF(0, 0, 0, 0),
    brightnessStaging |-> 0,
    onoffStaging |-> 0,
    colorIncrement |-> ColorQ,
    brightnessIncrement |-> BrightQ,
    onoffIncrement |-> OnOffQ \div 100,
    processingIntervalMs |-> 10,
    effectIntervalMs |-> 10,
    gradientPaddingBegin |-> GradQ \div 10,
    gradientPaddingValue |-> (19 * GradQ) \div 20,
    gradientMiddleEdgeSize |-> 0,
    gradientMiddleCenterSize |-> GradQ \div 20,
    gradientInterpolationMode |-> "Smooth",
    gradientMode |-> LINEAR_PADDING,
    gradientInvertColors |-> FALSE,
    effectMinAmplitude |-> (6 * ScaleQ) \div 10,
    effectMaxAmplitude |-> (12 * ScaleQ) \div 10,
    effectEvolveMinSteps |-> 100,
    effectEvolveMaxSteps |-> 200,
    effectHoldMinSteps |-> 10,
    effectHoldMaxSteps |-> 30,
    effectActive |-> TRUE,
    changeCounter |-> 0,
    lastModifiedMs |-> 0 ]

EffectDefaults ==
  [ prev |-> <<1, 1>>, next |-> <<1, 1>>, currentOutput |-> <<1, 1>>,
    numSteps |-> 0, currentStep |-> 1, hold |-> FALSE ]

\* CORE::Init() on a strip of n pixels at time t
CoreInitVars(n) ==
  [ Pixels |-> [i \in 0..(n - 1) |-> Pix(0, 0, 0, 0)],
    Colors |-> [i \in 0..(n - 1) |-> Pix(0, 0, 0, 0)],
    Scale |-> [i \in 0..(n - 1) |-> Pix(<<1, 1>>, <<1, 1>>, <<1, 1>>, <<1, 1>>)],
    colorOne |-> PixF(0, 0, 0, 0),
    colorTwo |-> PixF(0, 0, 0, 0),
    brightness |-> BrightMax,
    onoffFactor |-> OnOffQ,
    Count |-> n,
    Effect |-> [k \in 0..3 |-> EffectDefaults] ]

CoreInitConfig ==
  [ConfigDefaults EXCEPT !.brightnessStaging = BrightMax,
                         !.onoffStaging = OnOffQ,
                         !.colorOneStaging = PixF(255, 0, 0, 0),
                         !.colorTwoStaging = PixF(0, 255, 0, 0)]

CoreInitState(t) ==
  [active |-> TRUE, processingLastExecutionMs |-> t, effectLastExecutionMs |-> t]

---------------------------------------------------------------------------
(* Change tracking *)

MarkChangeInConfig(c, t) ==
  [c EXCEPT !.changeCounter = c.changeCounter + 1, !.lastModifiedMs = t]

\* history: a step that moved changeCounter went through MarkChangeInConfig()
Stamped ==
  IF cfg'.changeCounter # cfg.changeCounter
    THEN [by |-> "MarkChangeInConfig", at |-> now]
    ELSE stamp

\* history: the clock steps add up to the time since Init, and a gate that
\* fired in this step fired at the present time
Clocked ==
  [ms |-> uptime.ms + (IF last'[1] \in {"Tick", "millis"} THEN last'[2] ELSE 0),
   rendered |-> IF last'[1] = "LED::Update" /\ last'[2] THEN uptime.ms ELSE uptime.rendered,
   effect |-> IF last'[1] = "LED::Update" /\ last'[3] THEN uptime.ms ELSE uptime.effect]

\* the console after InitializeConsoleInterface(), with no input waiting:
\* the buffer and the restart request, then the serial input still to come
\* and the history of the current line, the evaluated lines, the accepted
\* restart requests and the restarts
ConsoleInit ==
  [cmdBuffer |-> <<>>, systemRestartPending |-> FALSE, systemRestartDeadlineMs |-> 0,
   serial |-> <<>>, line |-> <<>>, evaluated |-> <<>>,
   requests |-> 0, requestedAt |-> 0, firstRequestedAt |-> 0, restarts |-> 0]

UptimeInit == [ms |-> 0, rendered |-> 0, effect |-> 0]

\* 15000u: the initial value of g_autoSaveDelayMs
AutoSaveDelayDefault == 15000

\* the blob of a key that was never written: getBytesLength() is 0
NoBlob == [total |-> 0, read |-> 0, version |-> "", payload |-> <<>>, csum |-> 0]

\* after a successful LED::Init() on empty storage, nothing saved or loaded yet
Booted ==
  /\ g_lastSavedCounter = 0
  /\ prefs = NoBlob
  /\ g_autoSaveDelayMs = AutoSaveDelayDefault
  /\ hardware = TRUE
  /\ stamp = [by |-> "Init", at |-> 0]
  /\ console = ConsoleInit
  /\ uptime = UptimeInit

---------------------------------------------------------------------------
(* Fader *)

\* StepTowards without the snap onto a target within reach
StepTowardsNoSnap(current, target, step) ==
  IF target > current THEN current + step
  ELSE IF target < current THEN current - step ELSE current

StepTowards(current, target, step) ==
  IF step <= 0 THEN target
  ELSE LET diff == target - current
       IN  IF Abs(diff) <= step THEN target
           ELSE current + (IF diff > 0 THEN step ELSE -step)

\* the change test without its threshold
ChangedAny(new, prev, q) == new # prev

\* fabsf(new - prev) > 1e-5f, for values counted in units of 1/q
Changed(new, prev, q) == Abs(new - prev) > (q \div EpsDen)

\* the brightness step without the constrain that follows it
FadeBrightnessUnclamped(c, vv) ==
  StepTowards(vv.brightness, c.brightnessStaging, c.brightnessIncrement)

FadeBrightness(c, vv) ==
  constrain(StepTowards(vv.brightness, c.brightnessStaging, c.brightnessIncrement),
            0, BrightMax)

\* the on/off factor set to its target at once
FadeOnOffJump(c, vv) == constrain(c.onoffStaging, 0, OnOffQ)

FadeOnOff(c, vv) ==
  constrain(StepTowards(vv.onoffFactor, c.onoffStaging, c.onoffIncrement), 0, OnOffQ)

stepChannel(channel, target, c) ==
  constrain(StepTowards(channel, target, c.colorIncrement), 0, ColorMax)

\* a colour fade that covers half of the remaining distance per call
FadeColorHalfway(c, live, staging) ==
  [ch \in Chan |-> live[ch] + ((staging[ch] - live[ch]) \div 2)]

FadeColor(c, live, staging) ==
  [ch \in Chan |-> stepChannel(live[ch], staging[ch], c)]

\* the Vars after one Fade() call
FadeVars(c, vv) ==
  [vv EXCEPT !.brightness = FadeBrightness(c, vv),
             !.onoffFactor = FadeOnOff(c, vv),
             !.colorOne = FadeColor(c, vv.colorOne, c.colorOneStaging),
             !.colorTwo = FadeColor(c, vv.colorTwo, c.colorTwoStaging)]

\* the uint8_t one Fade() call returns
FadeChanges(c, vv) ==
  LET w == FadeVars(c, vv)
  IN  ( (IF Changed(w.brightness, vv.brightness, BrightQ) THEN 1 ELSE 0)
      + (IF Changed(w.onoffFactor, vv.onoffFactor, OnOffQ) THEN 1 ELSE 0)
      + Cardinality({ch \in Chan : Changed(w.colorOne[ch], vv.colorOne[ch], ColorQ)})
      + Cardinality({ch \in Chan : Changed(w.colorTwo[ch], vv.colorTwo[ch], ColorQ)})
      ) % 256

---------------------------------------------------------------------------
(* Device bridge (100_DEVICE_LINKER.h).  Hue is in whole degrees,          *)
(* saturation and level in whole percent, as the HomeKit characteristics   *)
(* deliver them.                                                           *)

\* the Mirror's member initialisers, and detail::RgbwConversionEnabled()
MirrorInit ==
  [onoff |-> FALSE, level |-> 50, hue1 |-> 0, sat1 |-> 0,
   hue2 |-> 0, sat2 |-> 0, rgbw |-> FALSE]

NormalizeHue(hue) == hue % 360

MirrorLevelToBrightness(level) == (constrain(level, 0, 100) * BrightMax) \div 100

SanitizeMirror(m) ==
  [m EXCEPT !.level = constrain(m.level, 0, 100),
            !.hue1 = NormalizeHue(m.hue1),
            !.hue2 = NormalizeHue(m.hue2),
            !.sat1 = constrain(m.sat1, 0, 100),
            !.sat2 = constrain(m.sat2, 0, 100)]

Min2(a, b) == IF a < b THEN a ELSE b

\* HSV (value 1) -> Pixel_float.  With sat = s/100 the code's c, x and m are
\* c = s/100, x = c * (60 - |hue mod 120 - 60|) / 60, m = 1 - c; each channel
\* is (c|x|0) + m, times 255.
MirrorColorToPixel(hueDeg, satPercent, rgbw) ==
  LET hue == NormalizeHue(hueDeg)
      sat == constrain(satPercent, 0, 100)
      k == 60 - Abs((hue % 120) - 60)
      c == sat * (ColorMax \div 100)
      x == sat * k * (ColorMax \div 6000)
      m == (100 - sat) * (ColorMax \div 100)
      r1 == IF hue < 60 THEN c ELSE IF hue < 120 THEN x ELSE IF hue < 240 THEN 0
            ELSE IF hue < 300 THEN x ELSE c
      g1 == IF hue < 60 THEN x ELSE IF hue < 180 THEN c ELSE IF hue < 240 THEN x
            ELSE 0
      b1 == IF hue < 120 THEN 0 ELSE IF hue < 180 THEN x ELSE IF hue < 300 THEN c
            ELSE x
      finalR == r1 + m
      finalG == g1 + m
      finalB == b1 + m
      whiteness == Min2(finalR, Min2(finalG, finalB))
  IN  IF rgbw
        THEN Pix(constrain(finalR - whiteness, 0, ColorMax),
                 constrain(finalG - whiteness, 0, ColorMax),
                 constrain(finalB - whiteness, 0, ColorMax),
                 constrain(whiteness, 0, ColorMax))
        ELSE Pix(constrain(finalR, 0, ColorMax), constrain(finalG, 0, ColorMax),
                 constrain(finalB, 0, ColorMax), 0)

\* the Config after ApplyMirrorToCoreConfig() on mirror m at time t
ApplyMirrorToCoreConfig(c, m, t) ==
  LET sanitized == SanitizeMirror(m)
  IN  MarkChangeInConfig(
        [c EXCEPT !.colorOneStaging =
                     MirrorColorToPixel(sanitized.hue1, sanitized.sat1, sanitized.rgbw),
                  !.colorTwoStaging =
                     MirrorColorToPixel(sanitized.hue2, sanitized.sat2, sanitized.rgbw),
                  !.brightnessStaging = MirrorLevelToBrightness(sanitized.level),
                  !.onoffStaging = IF sanitized.onoff THEN OnOffQ ELSE 0], t)

---------------------------------------------------------------------------
(* Console (300_CONSOLE.h): SET GRADIENT EDGE / CENTER *)

\* the sanitizer without the cap of the center size at 1 - 2 * edge
SanitizeEdgeCenterNoCap(c) ==
  [c EXCEPT !.gradientMiddleEdgeSize = constrain(c.gradientMiddleEdgeSize, 0, GradQ \div 2),
            !.gradientMiddleCenterSize = constrain(c.gradientMiddleCenterSize, 0, GradQ)]

SanitizeEdgeCenterConfig(c) ==
  LET edge == constrain(c.gradientMiddleEdgeSize, 0, GradQ \div 2)
      center == constrain(c.gradientMiddleCenterSize, 0, GradQ)
      maxCenter == GradQ - 2 * edge
      capped == IF center > maxCenter
                  THEN (IF maxCenter > 0 THEN maxCenter ELSE 0)
                  ELSE center
  IN  [c EXCEPT !.gradientMiddleEdgeSize = edge,
                !.gradientMiddleCenterSize = IF capped < 0 THEN 0 ELSE capped]

\* the Config after "SET GRADIENT EDGE val" / "SET GRADIENT CENTER val" at time t
HandleSET_GRADIENT_EDGE(c, val, t) ==
  LET set == SanitizeEdgeCenterConfig(
               [c EXCEPT !.gradientMiddleEdgeSize = constrain(val, 0, GradQ \div 2)])
  IN  IF \/ set.gradientMiddleEdgeSize # c.gradientMiddleEdgeSize
         \/ set.gradientMiddleCenterSize # c.gradientMiddleCenterSize
        THEN MarkChangeInConfig(set, t)
        ELSE set

HandleSET_GRADIENT_CENTER(c, val, t) ==
  LET set == SanitizeEdgeCenterConfig(
               [c EXCEPT !.gradientMiddleCenterSize = constrain(val, 0, GradQ)])
  IN  IF \/ set.gradientMiddleEdgeSize # c.gradientMiddleEdgeSize
         \/ set.gradientMiddleCenterSize # c.gradientMiddleCenterSize
        THEN MarkChangeInConfig(set, t)
        ELSE set

---------------------------------------------------------------------------
(* Exact rationals <<numerator, denominator>>, denominator > 0, in lowest  *)
(* terms                                                                   *)

Rat(n, d) == LET g == GCD(Abs(n), d) IN <<n \div g, d \div g>>

\* constrain(t, 0.0f, 1.0f)
ClampUnit(t) == IF t[1] < 0 THEN <<0, 1>> ELSE IF t[1] > t[2] THEN <<1, 1>> ELSE t

\* <<quotient, remainder>> of a * b by d, for 0 <= a < d, b >= 0, without
\* forming the product
RECURSIVE MulDivMod(_, _, _)
MulDivMod(a, b, d) ==
  IF b = 0 THEN <<0, 0>>
  ELSE LET h == MulDivMod(a, b \div 2, d)
           r == 2 * h[2] + (IF b % 2 = 1 THEN a ELSE 0)
       IN  <<2 * h[1] + r \div d, r % d>>

---------------------------------------------------------------------------
(* ComputeGradient *)

\* t * t * (3 - 2 t) on the clamped t, or t itself
ApplyInterpolation(t, mode) ==
  LET u == ClampUnit(t)
  IN  IF mode = "Smooth"
        THEN Rat(u[1] * u[1] * (3 * u[2] - 2 * u[1]), u[2] * u[2] * u[2])
        ELSE u

\* static_cast<uint8_t>(x) of a channel value x in [0, 255]: truncation
CastByte(x) == x \div ColorQ

\* applyColor(index, src): the bytes stored into Colors[index]
applyColor(src) == [ch \in Chan |-> CastByte(src[ch])]

\* the whole part of a + (b - a) * t for one channel, t = p/q in [0, 1]:
\* floor((a (q - p) + b p) / (q ColorQ)), whole and fractional units apart
BlendChannel(a, b, p, q) ==
  LET whole == (a \div ColorQ) * (q - p) + (b \div ColorQ) * p
      fa == MulDivMod(a % ColorQ, q - p, ColorQ)
      fb == MulDivMod(b % ColorQ, p, ColorQ)
      frac == fa[1] + fb[1] + (fa[2] + fb[2]) \div ColorQ
  IN  (whole + frac) \div q

\* applyColor(index, blendColors(a, b, t))
applyBlend(a, b, t) ==
  LET u == ClampUnit(t)
  IN  [ch \in Chan |-> BlendChannel(a[ch], b[ch], u[1], u[2])]

primaryColor(vv, invertColors) == IF invertColors THEN vv.colorTwo ELSE vv.colorOne

secondaryColor(vv, invertColors) == IF invertColors THEN vv.colorOne ELSE vv.colorTwo

\* the split at floor(Count / 2)
splitIndexFloor(n) == n \div 2

\* MIDPOINT_SPLIT: (Count + 1) / 2
splitIndex(n) == (n + 1) \div 2

\* t = i / Count
LinearTOverCount(i, n) == Rat(i, n)

\* LINEAR: t = i / (Count - 1), for Count > 1
LinearT(i, n) == Rat(i, n - 1)

\* the secondary weight of a plain linear gradient, without padded zones
PaddingW2NoPad(c, i, n) == Rat(i, n - 1)

\* LINEAR_PADDING, n >= 2: the secondary weight w2 = 1 - w1 of pixel i
PaddingW2(c, i, n) ==
  LET padStart == constrain(c.gradientPaddingBegin, 0, (4 * GradQ) \div 10)
      padValue == constrain(c.gradientPaddingValue, 0, GradQ)
      \* startIdx, endIdx and range, times GradQ
      startIdx == padStart * (n - 1)
      endIdx == (GradQ - padStart) * (n - 1)
      range == endIdx - startIdx
      w1 == IF i * GradQ <= startIdx THEN Rat(padValue, GradQ)
            ELSE IF i * GradQ >= endIdx \/ range <= 0 THEN Rat(GradQ - padValue, GradQ)
            ELSE LET tt == ClampUnit(Rat(i * GradQ - startIdx, range))
                 IN  Rat(padValue * tt[2] + (GradQ - 2 * padValue) * tt[1],
                         GradQ * tt[2])
  IN  ClampUnit(Rat(w1[2] - w1[1], w1[2]))

\* EDGE_CENTER: the bytes of pixel i of n.  Positions are compared after
\* multiplying by 2 * GradQ * (n - 1); edge, center and transitionTotal are in
\* units of 1/GradQ, so halfTransition is transitionTotal / (2 GradQ).
EdgeCenterPixel(c, vv, invertColors, i, n) ==
  LET primary == primaryColor(vv, invertColors)
      secondary == secondaryColor(vv, invertColors)
      edgeSize == constrain(c.gradientMiddleEdgeSize, 0, GradQ \div 2)
      centerIn == constrain(c.gradientMiddleCenterSize, 0, GradQ)
      maxCenter == GradQ - 2 * edgeSize
      centerCapped == IF centerIn > maxCenter THEN maxCenter ELSE centerIn
      centerSize == IF centerCapped < 0 THEN 0 ELSE centerCapped
      total == GradQ - (2 * edgeSize + centerSize)
      transitionTotal == IF total < 0 THEN 0 ELSE total
      \* halfTransition <= 1e-6f
      noTransition == transitionTotal * 1000000 <= 2 * GradQ
      m == IF n <= 1 THEN 1 ELSE n - 1
      x == IF n <= 1 THEN 0 ELSE i
      \* the four zone ends, times 2 * GradQ
      leftEdgeEnd == 2 * edgeSize
      leftTransitionEnd == leftEdgeEnd + transitionTotal
      centerEnd == leftTransitionEnd + 2 * centerSize
      rightTransitionEnd == centerEnd + transitionTotal
  IN  IF x * 2 * GradQ <= leftEdgeEnd * m \/ noTransition
        THEN applyColor(primary)
      ELSE IF x * 2 * GradQ < leftTransitionEnd * m /\ ~noTransition
        THEN applyBlend(primary, secondary,
               ApplyInterpolation(Rat(x * 2 * GradQ - leftEdgeEnd * m,
                                      transitionTotal * m),
                                  c.gradientInterpolationMode))
      ELSE IF x * 2 * GradQ < centerEnd * m
        THEN applyColor(secondary)
      ELSE IF x * 2 * GradQ < rightTransitionEnd * m /\ ~noTransition
        THEN applyBlend(secondary, primary,
               ApplyInterpolation(Rat(x * 2 * GradQ - centerEnd * m,
                                      transitionTotal * m),
                                  c.gradientInterpolationMode))
      ELSE applyColor(primary)

\* the bytes ComputeGradient(mode, invertColors) stores into Colors[i]
GradientPixel(c, vv, mode, invertColors, i) ==
  LET n == vv.Count
      primary == primaryColor(vv, invertColors)
      secondary == secondaryColor(vv, invertColors)
  IN  CASE mode = SINGLE_COLOR -> applyColor(primary)
        [] mode = MIDPOINT_SPLIT ->
             applyColor(IF i < splitIndex(n) THEN primary ELSE secondary)
        [] mode = LINEAR_PADDING ->
             IF n = 1 THEN applyBlend(primary, secondary, <<1, 2>>)
             ELSE applyBlend(primary, secondary, PaddingW2(c, i, n))
        [] mode = EDGE_CENTER -> EdgeCenterPixel(c, vv, invertColors, i, n)
        [] OTHER ->
             IF n <= 1 THEN applyColor(primary)
             ELSE applyBlend(primary, secondary, LinearT(i, n))

\* Vars::Colors after ComputeGradient(mode, invertColors)
ComputeGradient(c, vv, mode, invertColors) ==
  IF vv.Count = 0 THEN vv.Colors
  ELSE [i \in 0..(vv.Count - 1) |-> GradientPixel(c, vv, mode, invertColors, i)]

---------------------------------------------------------------------------
(* ApplyOutputScaling and SetPixelRGBW *)

NaN == <<0, 0>>

IsNaN(x) == x[2] = 0

\* one channel of one pixel with a defined scale: the int
\* (int)(constrain(color * scale, 0, 255) * (constrain(brightness, 0, 255) / 255)
\* * onOff + 0.5f).  With color * scale = whole + rest/den, the value is
\* floor((2 whole P + D + floor(2 rest P / den)) / (2 D)) for
\* P = brightness * onOff and D = 255 in the same units.
ScaledInt(color, scale, brightness, onOff) ==
  IF scale[1] <= 0 THEN 0
  ELSE
    LET den == scale[2]
        part == MulDivMod(scale[1] % den, color, den)
        whole == color * (scale[1] \div den) + part[1]
        baseWhole == IF whole >= ByteMax THEN ByteMax ELSE whole
        baseRest == IF whole >= ByteMax THEN 0 ELSE part[2]
        P == constrain(brightness, 0, BrightMax) * onOff
        D == BrightMax * OnOffQ
    IN  (2 * baseWhole * P + D + MulDivMod(baseRest, 2 * P, den)[1]) \div (2 * D)

\* the clamp applied after the brightness and on/off factors instead of before
ScaledByteClampLast(color, scale, brightness, onOff, ub) ==
  IF IsNaN(scale) THEN ub
  ELSE constrain((2 * color * scale[1] * constrain(brightness, 0, BrightMax) * onOff
                    + scale[2] * BrightMax * OnOffQ)
                   \div (2 * scale[2] * BrightMax * OnOffQ), 0, ByteMax)

\* the byte SetPixelRGBW stores: the int, converted to its uint8_t parameter.
\* A NaN scale makes the float -> int conversion undefined: ub is the byte it
\* then produces.
ScaledByte(color, scale, brightness, onOff, ub) ==
  IF IsNaN(scale) THEN ub
  ELSE ScaledInt(color, scale, brightness, onOff) % 256

\* Vars::Pixels after ApplyOutputScaling()
ApplyOutputScaling(vv, ub) ==
  [i \in 0..(vv.Count - 1) |->
     [ch \in Chan |-> ScaledByte(vv.Colors[i][ch], vv.Scale[i][ch],
                                 vv.brightness, vv.onoffFactor, ub)]]

\* the bytes an undefined float -> int conversion is taken to produce
UndefinedBytes(vv) ==
  IF \E i \in 0..(vv.Count - 1) : \E ch \in Chan : IsNaN(vv.Scale[i][ch])
    THEN {0, ByteMax}
    ELSE {0}

---------------------------------------------------------------------------
(* Effect and ShiftScaleChannel *)

RatAdd(a, b) == Rat(a[1] * b[2] + b[1] * a[2], a[2] * b[2])

RatSub(a, b) == Rat(a[1] * b[2] - b[1] * a[2], a[2] * b[2])

RatMul(a, b) == Rat(a[1] * b[1], a[2] * b[2])

RatLE(a, b) == a[1] * b[2] <= b[1] * a[2]

\* minValue + r * (maxValue - minValue) for r = rand() / RAND_MAX in [0, 1]
randomFloat(minValue, maxValue, r) == RatAdd(minValue, RatMul(r, RatSub(maxValue, minValue)))

\* random(x, y + 1): x if the range is empty, else a value of x .. y; the draw
\* r in [0, 1] picks it
randomInt(x, y, r) == IF x >= y + 1 THEN x ELSE x + (r[1] * (y - x)) \div r[2]

mapFloatToFloat(x, x0, x1, y0, y1) ==
  IF RatLE(x, x0) THEN y0
  ELSE IF RatLE(x1, x) THEN y1
  ELSE RatAdd(y0, RatMul(RatMul(RatSub(x, x0), RatSub(y1, y0)),
                         <<RatSub(x1, x0)[2], RatSub(x1, x0)[1]>>))

\* applySmoothInterpolation(currentStep / numSteps); 0/0 is NaN
SmoothProgress(currentStep, numSteps) ==
  IF numSteps = 0 THEN NaN
  ELSE ApplyInterpolation(Rat(currentStep, numSteps), "Smooth")

\* a generator with a single kind of phase: the hold flag never changes
EffectGeneratorOnePhase(c, e, draw) ==
  IF e.currentStep > e.numSteps
    THEN [e EXCEPT !.prev = e.next, !.numSteps = 1, !.currentStep = 1,
                   !.currentOutput = e.next]
    ELSE [e EXCEPT !.currentStep = e.currentStep + 1]

\* one generator after one Effect() call with the effect active; draw holds
\* the results r in [0, 1] of the rand() / random() calls a re-plan makes
EffectGenerator(c, e, draw) ==
  LET replan == e.currentStep > e.numSteps
      minAmp == Rat(c.effectMinAmplitude, ScaleQ)
      maxAmp == Rat(c.effectMaxAmplitude, ScaleQ)
      next == IF replan /\ ~e.hold THEN randomFloat(minAmp, maxAmp, draw.amplitude)
              ELSE e.next
      prev == IF replan THEN e.next ELSE e.prev
      diff == RatSub(next, prev)
      diffMappedSteps ==
        mapFloatToFloat(diff, minAmp, maxAmp,
                        <<c.effectEvolveMinSteps, 1>>, <<c.effectEvolveMaxSteps, 1>>)
      stretched == RatMul(diffMappedSteps, randomFloat(<<4, 5>>, <<6, 5>>, draw.stretch))
      numSteps == IF ~replan THEN e.numSteps
                  ELSE IF e.hold
                    THEN randomInt(c.effectHoldMinSteps, c.effectHoldMaxSteps, draw.steps)
                  ELSE stretched[1] \div stretched[2]
      currentStep == IF replan THEN 0 ELSE e.currentStep
      progress == SmoothProgress(currentStep, numSteps)
  IN  [prev |-> prev,
       next |-> next,
       currentOutput |-> IF IsNaN(progress) THEN NaN
                         ELSE RatAdd(prev, RatMul(progress, diff)),
       numSteps |-> numSteps,
       currentStep |-> currentStep + 1,
       hold |-> IF replan THEN ~e.hold ELSE e.hold]

ChannelOf(channel) ==
  IF channel = 0 THEN "R" ELSE IF channel = 1 THEN "G" ELSE IF channel = 2 THEN "B" ELSE "W"

\* every entry of the channel overwritten with the new value
ShiftScaleChannelFill(scale, n, newValue, channel, forward) ==
  [i \in 0..(n - 1) |-> [scale[i] EXCEPT ![ChannelOf(channel)] = newValue]]

\* Vars::Scale after ShiftScaleChannel(newValue, channel, forward) on n pixels
ShiftScaleChannel(scale, n, newValue, channel, forward) ==
  IF n = 0 \/ channel < 0 \/ channel > 3 THEN scale
  ELSE LET ch == ChannelOf(channel)
       IN  [i \in 0..(n - 1) |->
             [scale[i] EXCEPT ![ch] =
                IF forward
                  THEN (IF i = 0 THEN newValue ELSE scale[i - 1][ch])
                  ELSE (IF i = n - 1 THEN newValue ELSE scale[i + 1][ch])]]

\* an effect that dims the live brightness instead of writing Scale
EffectOnBrightness(c, vv, draws) ==
  [vv EXCEPT !.brightness = (vv.brightness * 9) \div 10]

\* the Vars after Effect(); draws[n] are the random results of generator n
Effect(c, vv, draws) ==
  IF c.effectActive
    THEN LET gen == [n \in 0..3 |-> EffectGenerator(c, vv.Effect[n], draws[n])]
             s0 == ShiftScaleChannel(vv.Scale, vv.Count, gen[0].currentOutput, 0, TRUE)
             s1 == ShiftScaleChannel(s0, vv.Count, gen[1].currentOutput, 1, FALSE)
             s2 == ShiftScaleChannel(s1, vv.Count, gen[2].currentOutput, 2, TRUE)
             s3 == ShiftScaleChannel(s2, vv.Count, gen[3].currentOutput, 3, FALSE)
         IN  [vv EXCEPT !.Effect = gen, !.Scale = s3]
    ELSE LET s0 == ShiftScaleChannel(vv.Scale, vv.Count, <<1, 1>>, 0, TRUE)
             s1 == ShiftScaleChannel(s0, vv.Count, <<1, 1>>, 0, TRUE)
             s2 == ShiftScaleChannel(s1, vv.Count, <<1, 1>>, 0, TRUE)
             s3 == ShiftScaleChannel(s2, vv.Count, <<1, 1>>, 0, TRUE)
         IN  [vv EXCEPT !.Scale = s3]

---------------------------------------------------------------------------
(* 32-bit unsigned arithmetic.  A uint32_t value x is held as the integer  *)
(* congruent to x modulo 2^32 in -2^31 .. 2^31 - 1: 2^32 - k is held as -k *)
(* and 2^31 + k as -2^31 + k.                                              *)

\* 2^31 - 1
Int32Max == 2147483647

\* (a - b) mod 2^32, never leaving -2^31 .. 2^31 - 1 on the way
U32Sub(a, b) ==
  IF a >= 0 /\ b < 0 /\ a > Int32Max + b
    THEN ((a - Int32Max) - 1) - ((b + Int32Max) + 1)
  ELSE IF a < 0 /\ b >= 0 /\ (a + Int32Max) + 1 < b
    THEN (((a + Int32Max) + 1) + (Int32Max - b)) + 1
  ELSE a - b

\* (a + b) mod 2^32, for b > -2^31
U32Add(a, b) == U32Sub(a, 0 - b)

\* a >= b, both read as unsigned values
U32GE(a, b) == IF (a < 0) = (b < 0) THEN a >= b ELSE a < 0

\* a > b, both read as unsigned values
U32GT(a, b) == ~U32GE(b, a)

---------------------------------------------------------------------------
(* LED::Update *)

\* a processing branch that catches up on a missed interval: Fade runs twice
ProcessingCatchUp(c, vv, ub) ==
  LET faded == FadeVars(c, FadeVars(c, vv))
      coloured == [faded EXCEPT !.Colors =
                     ComputeGradient(c, faded, c.gradientMode, c.gradientInvertColors)]
  IN  [coloured EXCEPT !.Pixels = ApplyOutputScaling(coloured, ub)]

\* a processing branch that synthesises the gradient before it fades: the
\* colours come from the live values of the previous firing
ProcessingGradientFirst(c, vv, ub) ==
  LET faded == FadeVars(c, vv)
      coloured == [faded EXCEPT !.Colors =
                     ComputeGradient(c, vv, c.gradientMode, c.gradientInvertColors)]
  IN  [coloured EXCEPT !.Pixels = ApplyOutputScaling(coloured, ub)]

\* the Vars after the processing branch of LED::Update: Fade, ComputeGradient,
\* ApplyOutputScaling (UpdateColor changes no state)
Processing(c, vv, ub) ==
  LET faded == FadeVars(c, vv)
      coloured == [faded EXCEPT !.Colors =
                     ComputeGradient(c, faded, c.gradientMode, c.gradientInvertColors)]
  IN  [coloured EXCEPT !.Pixels = ApplyOutputScaling(coloured, ub)]

\* an effect gate that follows the rendering gate's timestamp and interval
EffectDueWithRendering(c, st, t) ==
  (t - st.processingLastExecutionMs) > c.processingIntervalMs

\* a rendering gate that compares millis() with a deadline, last run + interval
ProcessingDueByDeadline(c, st, t) ==
  U32GT(t, U32Add(st.processingLastExecutionMs, c.processingIntervalMs))

\* (millis() - s.processingLastExecutionMs) > c.processingIntervalMs, in uint32_t
ProcessingDue(c, st, t) ==
  U32GT(U32Sub(t, st.processingLastExecutionMs), c.processingIntervalMs)

\* (millis() - s.effectLastExecutionMs) > c.effectIntervalMs, in uint32_t
EffectDue(c, st, t) ==
  U32GT(U32Sub(t, st.effectLastExecutionMs), c.effectIntervalMs)

\* the random results one Effect() call can consume: per generator the draws
\* for the amplitude, the step stretch factor and the hold length
EffectDraws ==
  {[amplitude |-> <<0, 1>>, stretch |-> <<0, 1>>, steps |-> <<0, 1>>],
   [amplitude |-> <<1, 1>>, stretch |-> <<1, 1>>, steps |-> <<1, 1>>]}

NoDraw == [amplitude |-> <<0, 1>>, stretch |-> <<0, 1>>, steps |-> <<0, 1>>]

\* generator n draws only when it re-plans
DrawsFor(c, vv, due) ==
  {d \in [0..3 -> EffectDraws] :
     \A n \in 0..3 :
       (due /\ c.effectActive /\ vv.Effect[n].currentStep > vv.Effect[n].numSteps)
         \/ d[n] = NoDraw}

LEDUpdate ==
  /\ calls < MaxOps
  /\ LET procDue == ProcessingDue(cfg, s, now)
         effDue == EffectDue(cfg, s, now)
     IN  \E ub \in (IF procDue THEN UndefinedBytes(v) ELSE {0}) :
         \E draws \in DrawsFor(cfg, v, effDue) :
           LET processed == IF procDue THEN Processing(cfg, v, ub) ELSE v
           IN  /\ v' = IF effDue THEN Effect(cfg, processed, draws) ELSE processed
               /\ ret' = IF procDue THEN FadeChanges(cfg, v) ELSE ret
               /\ s' = [s EXCEPT
                          !.processingLastExecutionMs = IF procDue THEN now ELSE @,
                          !.effectLastExecutionMs = IF effDue THEN now ELSE @]
               /\ last' = <<"LED::Update", procDue, effDue>>
  /\ calls' = calls + 1
  /\ uptime' = Clocked
  /\ UNCHANGED console
  /\ UNCHANGED <<cfg, mirror, now, start, persisted>>
  /\ stamp' = Stamped

\* millis() advances
TickSteps == {1, 11}

Tick ==
  /\ calls < MaxOps
  /\ \E dt \in TickSteps :
       /\ now' = U32Add(now, dt)
       /\ last' = <<"Tick", dt>>
  /\ calls' = calls + 1
  /\ uptime' = Clocked
  /\ UNCHANGED console
  /\ UNCHANGED <<cfg, v, s, mirror, ret, start, persisted>>
  /\ stamp' = Stamped

---------------------------------------------------------------------------
(* Setters *)

StagedBrightnessSamples == {-10 * BrightQ, 100 * BrightQ, 300 * BrightQ}

\* CORE::SetStagingBrightness(float)
SetStagingBrightness ==
  /\ calls < MaxOps
  /\ \E brightness \in StagedBrightnessSamples :
       /\ cfg' = MarkChangeInConfig([cfg EXCEPT !.brightnessStaging = brightness], now)
       /\ last' = <<"SetStagingBrightness", brightness>>
  /\ calls' = calls + 1
  /\ uptime' = Clocked
  /\ UNCHANGED console
  /\ UNCHANGED <<v, s, mirror, now, ret, start, persisted>>
  /\ stamp' = Stamped

ByteSamples == {0, 128}

\* LED::Set(BRIGHTNESS, value)
LEDSetBrightness ==
  /\ calls < MaxOps
  /\ \E value \in ByteSamples :
       /\ cfg' = MarkChangeInConfig(
                   MarkChangeInConfig([cfg EXCEPT !.brightnessStaging = value * BrightQ],
                                      now), now)
       /\ last' = <<"LED::Set", "BRIGHTNESS", value>>
  /\ calls' = calls + 1
  /\ uptime' = Clocked
  /\ UNCHANGED console
  /\ UNCHANGED <<v, s, mirror, now, ret, start, persisted>>
  /\ stamp' = Stamped

PixelSamples == {Pix(0, 0, 255, 0), Pix(10, 20, 30, 40)}

\* LED::Set(target, r, g, b, w) for COLOR_ONE / COLOR_TWO
LEDSet ==
  /\ calls < MaxOps
  /\ \E target \in {"COLOR_ONE", "COLOR_TWO"} : \E pix \in PixelSamples :
       /\ cfg' = MarkChangeInConfig(
                   IF target = "COLOR_ONE"
                     THEN [cfg EXCEPT !.colorOneStaging =
                             PixF(pix.R, pix.G, pix.B, pix.W)]
                     ELSE [cfg EXCEPT !.colorTwoStaging =
                             PixF(pix.R, pix.G, pix.B, pix.W)], now)
       /\ last' = <<"LED::Set", target, pix>>
  /\ calls' = calls + 1
  /\ uptime' = Clocked
  /\ UNCHANGED console
  /\ UNCHANGED <<v, s, mirror, now, ret, start, persisted>>
  /\ stamp' = Stamped

\* <<power, hue, saturation, brightness>> as HomeKit delivers them
CharacteristicSamples == {<<TRUE, 40, 50, 5>>, <<FALSE, 360, 100, 100>>}

\* DEV_Color1_Light::update() / DEV_Color2_Light::update()
DEV_Color_Light_update ==
  /\ calls < MaxOps
  /\ \E light \in {1, 2} : \E hk \in CharacteristicSamples :
       LET written == IF light = 1
                        THEN [mirror EXCEPT !.onoff = hk[1], !.level = hk[4],
                                            !.hue1 = hk[2], !.sat1 = hk[3]]
                        ELSE [mirror EXCEPT !.onoff = hk[1], !.level = hk[4],
                                            !.hue2 = hk[2], !.sat2 = hk[3]]
       IN  /\ mirror' = SanitizeMirror(written)
           /\ cfg' = ApplyMirrorToCoreConfig(cfg, written, now)
           /\ last' = <<"update", light, hk>>
  /\ calls' = calls + 1
  /\ uptime' = Clocked
  /\ UNCHANGED console
  /\ UNCHANGED <<v, s, now, ret, start, persisted>>
  /\ stamp' = Stamped

\* values of "SET PARAM <idx> <value>", in the units of the parameter
ParamSamples(idx) ==
  IF idx = 1 THEN {1, 100 * ColorQ}
  ELSE IF idx = 2 THEN {1, 300 * BrightQ}
  ELSE IF idx = 3 THEN {(30 * OnOffQ) \div 100, OnOffQ}
  ELSE {1, 20}

\* HandleSET_PARAM, parameters 1 (colour), 2 (brightness), 3 (on/off increment),
\* 4 (processing interval) and 5 (effect interval)
HandleSET_PARAM ==
  /\ calls < MaxOps
  /\ \E idx \in 1..5 : \E value \in ParamSamples(idx) \cup {0} :
       /\ cfg' = IF value <= 0 THEN cfg
                 ELSE MarkChangeInConfig(
                        IF idx = 1 THEN [cfg EXCEPT !.colorIncrement = value]
                        ELSE IF idx = 2 THEN [cfg EXCEPT !.brightnessIncrement = value]
                        ELSE IF idx = 3 THEN [cfg EXCEPT !.onoffIncrement = value]
                        ELSE IF idx = 4 THEN [cfg EXCEPT !.processingIntervalMs = value]
                        ELSE [cfg EXCEPT !.effectIntervalMs = value], now)
       /\ last' = <<"SET PARAM", idx, value>>
  /\ calls' = calls + 1
  /\ uptime' = Clocked
  /\ UNCHANGED console
  /\ UNCHANGED <<v, s, mirror, now, ret, start, persisted>>
  /\ stamp' = Stamped

\* HandleSET_GRADIENT, subcommand MODE
HandleSET_GRADIENT_MODE ==
  /\ calls < MaxOps
  /\ \E mode \in GradientMode :
       /\ cfg' = IF cfg.gradientMode # mode
                   THEN MarkChangeInConfig([cfg EXCEPT !.gradientMode = mode], now)
                   ELSE cfg
       /\ last' = <<"SET GRADIENT MODE", mode>>
  /\ calls' = calls + 1
  /\ uptime' = Clocked
  /\ UNCHANGED console
  /\ UNCHANGED <<v, s, mirror, now, ret, start, persisted>>
  /\ stamp' = Stamped

---------------------------------------------------------------------------
(* Spec: the program from CORE::Init on, its operations in any order *)

Init ==
  /\ cfg = CoreInitConfig
  /\ v = CoreInitVars(LedCount)
  /\ s = CoreInitState(0)
  /\ mirror = MirrorInit
  /\ now = 0
  /\ last = <<"Init">>
  /\ ret = 0
  /\ calls = 0
  /\ start = v
  /\ Booted

Next ==
  \/ LEDUpdate
  \/ Tick
  \/ SetStagingBrightness
  \/ LEDSetBrightness
  \/ LEDSet
  \/ DEV_Color_Light_update
  \/ HandleSET_PARAM
  \/ HandleSET_GRADIENT_MODE

Spec == Init /\ [][Next]_vars

---------------------------------------------------------------------------
(* SpecConsole: SET GRADIENT EDGE / CENTER commands with any numeric       *)
(* argument, from CORE::Init's Config on                                   *)

\* arguments of the commands, in units of 1/GradQ: -0.25 .. 2.0
GradientArgSamples ==
  {-(GradQ \div 4), 0, GradQ \div 4, (7 * GradQ) \div 20, GradQ \div 2,
   (7 * GradQ) \div 10, GradQ, 2 * GradQ}

SetGradientEdge ==
  /\ calls < MaxOps
  /\ \E val \in GradientArgSamples :
       /\ cfg' = HandleSET_GRADIENT_EDGE(cfg, val, now)
       /\ last' = <<"SET GRADIENT EDGE", val>>
  /\ calls' = calls + 1
  /\ uptime' = Clocked
  /\ UNCHANGED console
  /\ UNCHANGED <<v, s, mirror, now, ret, start, persisted>>
  /\ stamp' = Stamped

SetGradientCenter ==
  /\ calls < MaxOps
  /\ \E val \in GradientArgSamples :
       /\ cfg' = HandleSET_GRADIENT_CENTER(cfg, val, now)
       /\ last' = <<"SET GRADIENT CENTER", val>>
  /\ calls' = calls + 1
  /\ uptime' = Clocked
  /\ UNCHANGED console
  /\ UNCHANGED <<v, s, mirror, now, ret, start, persisted>>
  /\ stamp' = Stamped

NextConsole == SetGradientEdge \/ SetGradientCenter

SpecConsole == Init /\ [][NextConsole]_vars

---------------------------------------------------------------------------
(* SpecGradient: one ComputeGradient() call followed by one                *)
(* ApplyOutputScaling() call, on live colours, pixel counts and gradient   *)
(* settings drawn from sample sets.  Gradient parameters are values the    *)
(* console setters store.                                                  *)

\* <<colorOne, colorTwo>>
LiveColourSamples ==
  {<<PixF(255, 0, 0, 0), PixF(0, 0, 255, 0)>>,
   <<Pix((509 * ColorQ) \div 2, (41 * ColorQ) \div 4, 0, 3 * ColorQ),
     Pix((3 * ColorQ) \div 4, 200 * ColorQ, 255 * ColorQ, 4 * ColorQ - 1)>>,
   <<PixF(10, 20, 30, 40), PixF(10, 20, 30, 40)>>}

\* <<gradientPaddingBegin, gradientPaddingValue>>
PaddingSamples ==
  {<<GradQ \div 10, (19 * GradQ) \div 20>>, <<0, GradQ>>,
   <<(4 * GradQ) \div 10, GradQ \div 2>>, <<GradQ \div 4, 0>>,
   <<(3 * GradQ) \div 20, (3 * GradQ) \div 10>>}

\* <<gradientMiddleEdgeSize, gradientMiddleCenterSize>>
EdgeCenterSamples ==
  {<<0, GradQ \div 20>>, <<GradQ \div 4, GradQ \div 2>>, <<GradQ \div 5, GradQ \div 5>>,
   <<GradQ \div 2, 0>>, <<0, GradQ>>, <<GradQ \div 10, (3 * GradQ) \div 10>>,
   <<0, 0>>}

GradientConfigs ==
  {[CoreInitConfig EXCEPT !.gradientMode = mode] :
     mode \in {LINEAR, SINGLE_COLOR, MIDPOINT_SPLIT}}
  \cup {[CoreInitConfig EXCEPT !.gradientMode = LINEAR_PADDING,
                               !.gradientPaddingBegin = pad[1],
                               !.gradientPaddingValue = pad[2]] :
          pad \in PaddingSamples}
  \cup {[CoreInitConfig EXCEPT !.gradientMode = EDGE_CENTER,
                               !.gradientMiddleEdgeSize = ec[1],
                               !.gradientMiddleCenterSize = ec[2],
                               !.gradientInterpolationMode = interp] :
          ec \in EdgeCenterSamples, interp \in InterpolationMode}

InitGradient ==
  /\ cfg \in {[g EXCEPT !.gradientInvertColors = inv] :
                g \in GradientConfigs, inv \in BOOLEAN}
  /\ v \in {[CoreInitVars(n) EXCEPT !.colorOne = live[1], !.colorTwo = live[2],
                                    !.brightness = b] :
              n \in 1..MaxCount, live \in LiveColourSamples,
              b \in {BrightMax, 100 * BrightQ}}
  /\ s = CoreInitState(0)
  /\ mirror = MirrorInit
  /\ now = 0
  /\ last = <<"Init">>
  /\ ret = 0
  /\ calls = 0
  /\ start = v
  /\ Booted

\* CORE::ComputeGradient(c.gradientMode, c.gradientInvertColors)
ComputeGradientCall ==
  /\ last = <<"Init">>
  /\ v' = [v EXCEPT !.Colors =
             ComputeGradient(cfg, v, cfg.gradientMode, cfg.gradientInvertColors)]
  /\ last' = <<"ComputeGradient">>
  /\ calls' = calls + 1
  /\ uptime' = Clocked
  /\ UNCHANGED console
  /\ UNCHANGED <<cfg, s, mirror, now, ret, start, persisted>>
  /\ stamp' = Stamped

\* CORE::ApplyOutputScaling()
ApplyOutputScalingCall ==
  /\ last = <<"ComputeGradient">>
  /\ \E ub \in UndefinedBytes(v) : v' = [v EXCEPT !.Pixels = ApplyOutputScaling(v, ub)]
  /\ last' = <<"ApplyOutputScaling">>
  /\ calls' = calls + 1
  /\ uptime' = Clocked
  /\ UNCHANGED console
  /\ UNCHANGED <<cfg, s, mirror, now, ret, start, persisted>>
  /\ stamp' = Stamped

NextGradient == ComputeGradientCall \/ ApplyOutputScalingCall

SpecGradient == InitGradient /\ [][NextGradient]_vars

---------------------------------------------------------------------------
(* SpecFade: the Fader alone.  Init is CORE::Init's state with the live    *)
(* values, the staged targets and the increments drawn from sample sets;   *)
(* every live value is one the Fader can have produced, every increment is *)
(* one SET PARAM accepts (> 0), and brightnessStaging may lie outside      *)
(* [0,255] (SetStagingBrightness stores any float).                        *)

BrightStarts == {0, (201 * BrightQ) \div 2, BrightMax}
BrightTargets == {0, 110 * BrightQ, BrightMax, -10 * BrightQ, 300 * BrightQ}
BrightIncrements == {BrightQ, 100 * BrightQ}
OnOffStarts == {0, (37 * OnOffQ) \div 100, OnOffQ}
OnOffTargets == {0, OnOffQ}
OnOffIncrements == {OnOffQ \div 100, (30 * OnOffQ) \div 100}
ColorOneStarts ==
  {PixF(0, 0, 0, 0), Pix(255 * ColorQ, (21 * ColorQ) \div 2, 3 * ColorQ + 1, 0)}
ColorOneTargets ==
  {PixF(255, 0, 0, 0), Pix(250 * ColorQ, 12 * ColorQ, 3 * ColorQ, 2)}
ColorTwoStarts == {PixF(0, 0, 0, 0)}
ColorTwoTargets == {PixF(0, 255, 0, 0), PixF(0, 0, 0, 0)}
ColorIncrements == {ColorQ, 100 * ColorQ, 1}

InitFade ==
  /\ cfg \in {[CoreInitConfig EXCEPT !.brightnessStaging = bt,
                                     !.brightnessIncrement = bi,
                                     !.onoffStaging = ot,
                                     !.onoffIncrement = oi,
                                     !.colorOneStaging = c1,
                                     !.colorTwoStaging = c2,
                                     !.colorIncrement = ci] :
                bt \in BrightTargets, bi \in BrightIncrements,
                ot \in OnOffTargets, oi \in OnOffIncrements,
                c1 \in ColorOneTargets, c2 \in ColorTwoTargets,
                ci \in ColorIncrements}
  /\ v \in {[CoreInitVars(LedCount) EXCEPT !.brightness = b,
                                           !.onoffFactor = o,
                                           !.colorOne = c1,
                                           !.colorTwo = c2] :
              b \in BrightStarts, o \in OnOffStarts,
              c1 \in ColorOneStarts, c2 \in ColorTwoStarts}
  /\ s = CoreInitState(0)
  /\ mirror = MirrorInit
  /\ now = 0
  /\ last = <<"Init">>
  /\ ret = 0
  /\ calls = 0
  /\ start = v
  /\ Booted

\* one CORE::Fade() call
FadeCall ==
  /\ calls < MaxFadeCalls
  /\ v' = FadeVars(cfg, v)
  /\ ret' = FadeChanges(cfg, v)
  /\ last' = <<"Fade">>
  /\ calls' = calls + 1
  /\ uptime' = Clocked
  /\ UNCHANGED console
  /\ UNCHANGED <<cfg, s, mirror, now, start, persisted>>
  /\ stamp' = Stamped

NextFade == FadeCall

SpecFade == InitFade /\ [][NextFade]_vars

---------------------------------------------------------------------------
(* SpecEffect: CORE::Effect() called tick after tick from CORE::Init's     *)
(* state, with TOGGLE EFFECT commands in between.  The effect parameters   *)
(* of the Config are drawn from sample sets of values SET PARAM 6..11      *)
(* accepts (any value > 0).                                                *)

\* <<effectMinAmplitude, effectMaxAmplitude>>, in units of 1/ScaleQ
AmplitudeSamples == {<<(6 * ScaleQ) \div 10, (12 * ScaleQ) \div 10>>,
                     <<(4 * ScaleQ) \div 10, (16 * ScaleQ) \div 10>>}

\* <<effectEvolveMinSteps, effectEvolveMaxSteps>>
EvolveStepSamples == {<<100, 200>>, <<1, 3>>, <<6, 12>>}

\* <<effectHoldMinSteps, effectHoldMaxSteps>>
HoldStepSamples == {<<10, 30>>, <<1, 2>>}

EffectConfigs ==
  {[CoreInitConfig EXCEPT !.effectMinAmplitude = amp[1],
                          !.effectMaxAmplitude = amp[2],
                          !.effectEvolveMinSteps = evo[1],
                          !.effectEvolveMaxSteps = evo[2],
                          !.effectHoldMinSteps = hld[1],
                          !.effectHoldMaxSteps = hld[2]] :
     amp \in AmplitudeSamples, evo \in EvolveStepSamples, hld \in HoldStepSamples}

InitEffect ==
  /\ cfg \in EffectConfigs
  /\ v = CoreInitVars(LedCount)
  /\ s = CoreInitState(0)
  /\ mirror = MirrorInit
  /\ now = 0
  /\ last = <<"Init">>
  /\ ret = 0
  /\ calls = 0
  /\ start = v
  /\ Booted

\* results r of rand() / RAND_MAX and of random(): 0, 1/2 and 1
UnitDraws == {<<0, 1>>, <<1, 2>>, <<1, 1>>}

\* the random results generator e consumes in one Effect() call: none without
\* a re-plan, random() for a hold phase, rand() twice for an evolve phase
ConsumedDraws(c, e, amplitude, stretch, steps) ==
  IF ~(c.effectActive /\ e.currentStep > e.numSteps) THEN NoDraw
  ELSE IF e.hold THEN [NoDraw EXCEPT !.steps = steps]
  ELSE [NoDraw EXCEPT !.amplitude = amplitude, !.stretch = stretch]

\* the random results of one Effect() call, per generator.  Generators 0 and 2
\* draw opposite amplitudes, generators 1 and 3 the same amplitude.
EffectDrawVectors(c, vv) ==
  {[n \in 0..3 |->
      ConsumedDraws(c, vv.Effect[n],
                    IF n = 0 THEN a0
                    ELSE IF n = 2 THEN <<a0[2] - a0[1], a0[2]>> ELSE a1,
                    IF n \in {0, 2} THEN j0 ELSE j1,
                    IF n \in {0, 2} THEN a0 ELSE a1)] :
     a0 \in {<<0, 1>>, <<1, 1>>}, a1 \in {<<0, 1>>, <<1, 1>>},
     j0 \in UnitDraws, j1 \in UnitDraws}

\* Effect() calls made in a row with effectActive false, this one included
IdleTicks(c, l) ==
  IF c.effectActive THEN 0
  ELSE IF l[1] = "Effect" THEN l[3] + 1 ELSE 1

\* CORE::Effect(), as LED::Update calls it when the effect gate fires
EffectCall ==
  /\ calls < MaxEffectCalls
  /\ \E draws \in EffectDrawVectors(cfg, v) :
       /\ v' = Effect(cfg, v, draws)
       /\ last' = <<"Effect", draws, IdleTicks(cfg, last)>>
  /\ calls' = calls + 1
  /\ uptime' = Clocked
  /\ UNCHANGED console
  /\ UNCHANGED <<cfg, s, mirror, now, ret, start, persisted>>
  /\ stamp' = Stamped

\* HandleTOGGLE, subcommand EFFECT
HandleTOGGLE_EFFECT ==
  /\ calls < MaxEffectCalls
  /\ cfg' = MarkChangeInConfig([cfg EXCEPT !.effectActive = ~cfg.effectActive], now)
  /\ last' = <<"TOGGLE EFFECT">>
  /\ calls' = calls + 1
  /\ uptime' = Clocked
  /\ UNCHANGED console
  /\ UNCHANGED <<v, s, mirror, now, ret, start, persisted>>
  /\ stamp' = Stamped

NextEffect == EffectCall \/ HandleTOGGLE_EFFECT

SpecEffect == InitEffect /\ [][NextEffect]_vars

---------------------------------------------------------------------------
(* SpecScaling: ComputeGradient() and ApplyOutputScaling() on a state with  *)
(* Scale multipliers, live brightness and on/off factor drawn from sample  *)
(* sets: ApplyOutputScaling as a function of all its inputs.                *)

\* Scale multipliers: 1.0, values the effect writes (0.6, 0.7, 1.2, NaN), a
\* multiplier far above 1 and one below 0
ScaleSamples == {<<1, 1>>, <<3, 5>>, <<7, 10>>, <<6, 5>>, <<5, 1>>, <<-1, 2>>, NaN}

\* live brightness: 255, 127.5, 100 and 0.05
LiveBrightnessSamples == {BrightMax, BrightMax \div 2, 100 * BrightQ, 1}

\* live on/off factor: 0, 0.01, 0.37 and 1
LiveOnOffSamples == {0, 1, (37 * OnOffQ) \div 100, OnOffQ}

InitScaling ==
  /\ cfg \in {[CoreInitConfig EXCEPT !.gradientMode = mode] :
                mode \in {LINEAR, SINGLE_COLOR}}
  /\ v \in {[CoreInitVars(n) EXCEPT
               !.colorOne = live[1], !.colorTwo = live[2],
               !.brightness = b, !.onoffFactor = o,
               !.Scale = [i \in 0..(n - 1) |->
                            IF i % 2 = 0 THEN Pix(sa, sb, sa, sb)
                                         ELSE Pix(sb, sb, sa, sa)]] :
              n \in {1, LedCount}, live \in LiveColourSamples,
              b \in LiveBrightnessSamples, o \in LiveOnOffSamples,
              sa \in ScaleSamples, sb \in ScaleSamples}
  /\ s = CoreInitState(0)
  /\ mirror = MirrorInit
  /\ now = 0
  /\ last = <<"Init">>
  /\ ret = 0
  /\ calls = 0
  /\ start = v
  /\ Booted

SpecScaling == InitScaling /\ [][NextGradient]_vars

---------------------------------------------------------------------------
(* CORE::Init and LED::Init on the constructed singletons *)

\* Vars::Capacity
Capacity == LedCount

EffectZero ==
  [ prev |-> <<0, 1>>, next |-> <<0, 1>>, currentOutput |-> <<0, 1>>,
    numSteps |-> 0, currentStep |-> 0, hold |-> FALSE ]

\* the Vars singleton before Init: zero-initialised static storage, the member
\* initialisers of brightness and onoffFactor, and a Count the caller chose
VarsDefaults(count) ==
  [ Pixels |-> [i \in 0..(Capacity - 1) |-> Pix(0, 0, 0, 0)],
    Colors |-> [i \in 0..(Capacity - 1) |-> Pix(0, 0, 0, 0)],
    Scale |-> [i \in 0..(Capacity - 1) |-> Pix(<<0, 1>>, <<0, 1>>, <<0, 1>>, <<0, 1>>)],
    colorOne |-> PixF(0, 0, 0, 0),
    colorTwo |-> PixF(0, 0, 0, 0),
    brightness |-> BrightMax,
    onoffFactor |-> OnOffQ,
    Count |-> count,
    Effect |-> [k \in 0..3 |-> EffectZero] ]

StateDefaults ==
  [active |-> TRUE, processingLastExecutionMs |-> 0, effectLastExecutionMs |-> 0]

\* CORE::Init() without the test of Count
CoreInitUnchecked(c, vv, st, t) ==
  [ ok |-> TRUE,
    cfg |-> [c EXCEPT !.brightnessStaging = BrightMax,
                      !.onoffStaging = OnOffQ,
                      !.colorOneStaging = PixF(255, 0, 0, 0),
                      !.colorTwoStaging = PixF(0, 255, 0, 0)],
    v |-> vv,
    s |-> CoreInitState(t) ]

\* CORE::Init() at time t: the result and the three singletons after the call
CoreInit(c, vv, st, t) ==
  IF vv.Count = 0 \/ vv.Count > Capacity
    THEN [ok |-> FALSE, cfg |-> c, v |-> vv, s |-> st]
    ELSE [ ok |-> TRUE,
           cfg |-> [c EXCEPT !.brightnessStaging = BrightMax,
                             !.onoffStaging = OnOffQ,
                             !.colorOneStaging = PixF(255, 0, 0, 0),
                             !.colorTwoStaging = PixF(0, 255, 0, 0)],
           v |-> [vv EXCEPT
                    !.Pixels = [i \in DOMAIN vv.Pixels |->
                                  IF i < vv.Count THEN Pix(0, 0, 0, 0) ELSE vv.Pixels[i]],
                    !.Colors = [i \in DOMAIN vv.Colors |->
                                  IF i < vv.Count THEN Pix(0, 0, 0, 0) ELSE vv.Colors[i]],
                    !.Scale = [i \in DOMAIN vv.Scale |->
                                 IF i < vv.Count
                                   THEN Pix(<<1, 1>>, <<1, 1>>, <<1, 1>>, <<1, 1>>)
                                   ELSE vv.Scale[i]],
                    !.colorOne = PixF(0, 0, 0, 0),
                    !.colorTwo = PixF(0, 0, 0, 0),
                    !.onoffFactor = OnOffQ,
                    !.Effect = [k \in 0..3 |-> EffectDefaults]],
           s |-> CoreInitState(t) ]

---------------------------------------------------------------------------
(* Settings persistence (400_SETTINGS.h) *)

\* "V01.09", the CONFIG_VERSION of this revision, and its length
CONFIG_VERSION == "V01.09"
kSketchVersionLen == 6
\* sizeof(uint16_t) checksum
ChecksumLen == 2
kMaxBlobBuffer == 512
\* sizeof(LED::Config) on the 32-bit target
SizeofConfig == 124

\* the object representation of a Config, one 32-bit word per scalar member
\* (the model's integer for the member, not the IEEE encoding of the float)
ConfigImage(c) ==
  << c.colorOneStaging.R, c.colorOneStaging.G, c.colorOneStaging.B, c.colorOneStaging.W,
     c.colorTwoStaging.R, c.colorTwoStaging.G, c.colorTwoStaging.B, c.colorTwoStaging.W,
     c.brightnessStaging, c.onoffStaging,
     c.colorIncrement, c.brightnessIncrement, c.onoffIncrement,
     c.processingIntervalMs, c.effectIntervalMs,
     c.gradientPaddingBegin, c.gradientPaddingValue,
     c.gradientMiddleEdgeSize, c.gradientMiddleCenterSize,
     IF c.gradientInterpolationMode = "Smooth" THEN 1 ELSE 0,
     CHOOSE k \in 0..4 :
       c.gradientMode = <<LINEAR, LINEAR_PADDING, SINGLE_COLOR, MIDPOINT_SPLIT,
                          EDGE_CENTER>>[k + 1],
     IF c.gradientInvertColors THEN 1 ELSE 0,
     c.effectMinAmplitude, c.effectMaxAmplitude,
     c.effectEvolveMinSteps, c.effectEvolveMaxSteps,
     c.effectHoldMinSteps, c.effectHoldMaxSteps,
     IF c.effectActive THEN 1 ELSE 0,
     c.changeCounter, c.lastModifiedMs >>

\* the sum of the four bytes of a 32-bit word
WordByteSum(x) ==
  (x % 256) + ((x \div 256) % 256) + ((x \div 65536) % 256) + ((x \div 16777216) % 256)

RECURSIVE ByteSum(_)
ByteSum(data) == IF data = <<>> THEN 0 ELSE WordByteSum(Head(data)) + ByteSum(Tail(data))

simpleChecksum(data) == ByteSum(data) % 65536

\* the blob SaveStructPref() builds for obj: version string, payload, checksum
SaveStructPref(obj) ==
  [ total |-> kSketchVersionLen + SizeofConfig + ChecksumLen,
    read |-> kSketchVersionLen + SizeofConfig + ChecksumLen,
    version |-> CONFIG_VERSION,
    payload |-> obj,
    csum |-> simpleChecksum(ConfigImage(obj)) ]

\* LoadStructPref(key, outObj) on a stored blob: the result and outObj after
\* the call.  blob.read is what pref.getBytes() returns.  The payload is copied
\* into outObj before the checksum is compared.
LoadStructPref(blob, outObj) ==
  IF blob.total = 0 THEN [ok |-> FALSE, outObj |-> outObj]
  ELSE IF blob.total < kSketchVersionLen + ChecksumLen THEN [ok |-> FALSE, outObj |-> outObj]
  ELSE IF blob.total > kMaxBlobBuffer THEN [ok |-> FALSE, outObj |-> outObj]
  ELSE IF blob.read # blob.total THEN [ok |-> FALSE, outObj |-> outObj]
  ELSE IF blob.version # CONFIG_VERSION THEN [ok |-> FALSE, outObj |-> outObj]
  ELSE IF blob.total - (kSketchVersionLen + ChecksumLen) # SizeofConfig
    THEN [ok |-> FALSE, outObj |-> outObj]
  ELSE [ok |-> blob.csum = simpleChecksum(ConfigImage(blob.payload)),
        outObj |-> blob.payload]

\* a LoadConfig() that lets LoadStructPref() write into the singleton
LoadConfigInPlace(c, saved, blob) ==
  LET loaded == LoadStructPref(blob, c)
  IN  [ ret |-> loaded.ok, cfg |-> loaded.outObj,
        g_lastSavedCounter |-> IF loaded.ok THEN loaded.outObj.changeCounter ELSE saved ]

\* a LoadConfig() that restores the Config but not the last-saved counter
LoadConfigKeepsCounter(c, saved, blob) ==
  LET loaded == LoadStructPref(blob, ConfigDefaults)
  IN  IF ~loaded.ok
        THEN [ret |-> FALSE, cfg |-> c, g_lastSavedCounter |-> saved]
        ELSE [ret |-> TRUE, cfg |-> loaded.outObj, g_lastSavedCounter |-> saved]

\* LoadConfig(ConfigId::LED): the result, the Config singleton and the
\* last-saved counter after the call
LoadConfig(c, saved, blob) ==
  LET loaded == LoadStructPref(blob, ConfigDefaults)
  IN  IF ~loaded.ok
        THEN [ret |-> FALSE, cfg |-> c, g_lastSavedCounter |-> saved]
        ELSE [ret |-> TRUE, cfg |-> loaded.outObj,
              g_lastSavedCounter |-> loaded.outObj.changeCounter]

\* a save condition without the debounce
SaveDueAtOnce(c, saved, delay, t) == c.changeCounter # saved

\* the condition under which SETTINGS::Update() at time t saves
SaveDue(c, saved, delay, t) ==
  /\ c.changeCounter # saved
  /\ U32GE(U32Sub(t, c.lastModifiedMs), delay)

\* 3600000: the hour ProvokeImmediateSaveOfConfig() moves lastModifiedMs back
HourMs == 3600000

\* a ProvokeImmediateSaveOfConfig() that stops at 0 instead of wrapping
ProvokeImmediateSaveSaturating(c, t) ==
  [c EXCEPT !.changeCounter = c.changeCounter + 1,
            !.lastModifiedMs = IF t >= 0 /\ t < HourMs THEN 0 ELSE U32Sub(t, HourMs)]

ProvokeImmediateSaveOfConfig(c, t) ==
  [c EXCEPT !.changeCounter = c.changeCounter + 1,
            !.lastModifiedMs = U32Sub(t, HourMs)]

---------------------------------------------------------------------------
(* SpecSettings: boot and persistence.  LED::Init, LoadConfig,             *)
(* SETTINGS::Update, the console commands SAVE and TOGGLE GRADIENT_INVERT   *)
(* and the clock, in any order, from the constructed singletons on          *)

\* operations per behaviour of SpecSettings
MaxSettingsOps == 4

\* Vars::Count at the call of Init: 0, 1, the capacity and one more
BootCounts == {0, 1, Capacity, Capacity + 1}

\* millis() at the start of the behaviour: 0, one hour less 15 s, 2^31 - 2 and
\* 2^32 - 2
UptimeSamples == {0, HourMs - 15000, Int32Max - 1, -2}

\* g_autoSaveDelayMs: the default and one hour (SetAutoSaveIntervalMs)
DelaySamples == {AutoSaveDelayDefault, HourMs}

\* a Config saved by an earlier run: brightness 100, colours inverted, changed
\* 7 times, the last time at 5 000 000 ms of that run
StoredConfig ==
  [CoreInitConfig EXCEPT !.brightnessStaging = 100 * BrightQ,
                         !.gradientInvertColors = TRUE,
                         !.changeCounter = 7,
                         !.lastModifiedMs = 5000000]

\* what Preferences can hold under the key: nothing, a blob shorter than
\* version and checksum, one longer than the buffer, one that getBytes() reads
\* short, one of another version, one with a payload of another size, one with
\* a wrong checksum, and an intact one
StoredBlobs ==
  LET good == SaveStructPref(StoredConfig)
  IN  { NoBlob,
        [good EXCEPT !.total = kSketchVersionLen + ChecksumLen - 1,
                     !.read = kSketchVersionLen + ChecksumLen - 1],
        [good EXCEPT !.total = kMaxBlobBuffer + 1, !.read = kMaxBlobBuffer + 1],
        [good EXCEPT !.read = 0],
        [good EXCEPT !.version = "V01.08"],
        [good EXCEPT !.total = good.total - 4, !.read = good.total - 4],
        [good EXCEPT !.csum = (good.csum + 1) % 65536],
        good }

InitSettings ==
  /\ cfg = ConfigDefaults
  /\ v \in {VarsDefaults(n) : n \in BootCounts}
  /\ s = StateDefaults
  /\ mirror = MirrorInit
  /\ now \in UptimeSamples
  /\ last = <<"boot">>
  /\ ret = 0
  /\ calls = 0
  /\ start = v
  /\ g_lastSavedCounter = 0
  /\ prefs \in StoredBlobs
  /\ g_autoSaveDelayMs \in DelaySamples
  /\ hardware = FALSE
  /\ stamp = [by |-> "Init", at |-> 0]
  /\ console = ConsoleInit
  /\ uptime = UptimeInit

\* LED::Init(): CORE::Init(), then HAL::InitLedHardware() (which returns true)
LEDInit ==
  /\ calls < MaxSettingsOps
  /\ LET core == CoreInit(cfg, v, s, now)
     IN  /\ cfg' = core.cfg
         /\ v' = core.v
         /\ s' = core.s
         /\ hardware' = (hardware \/ core.ok)
         /\ last' = <<"LED::Init", core.ok>>
  /\ calls' = calls + 1
  /\ uptime' = Clocked
  /\ UNCHANGED console
  /\ UNCHANGED <<mirror, now, ret, start, g_lastSavedCounter, prefs, g_autoSaveDelayMs,
                 stamp>>

\* SETTINGS::LoadConfig(ConfigId::LED)
SettingsLoadConfig ==
  /\ calls < MaxSettingsOps
  /\ LET loaded == LoadConfig(cfg, g_lastSavedCounter, prefs)
     IN  /\ cfg' = loaded.cfg
         /\ g_lastSavedCounter' = loaded.g_lastSavedCounter
         /\ stamp' = IF loaded.ret THEN [by |-> "LoadConfig", at |-> now] ELSE stamp
         /\ last' = <<"LoadConfig", loaded.ret>>
  /\ calls' = calls + 1
  /\ uptime' = Clocked
  /\ UNCHANGED console
  /\ UNCHANGED <<v, s, mirror, now, ret, start, prefs, g_autoSaveDelayMs, hardware>>

\* SETTINGS::Update(); pref.putBytes() can fail, and then nothing is written
SettingsUpdate ==
  /\ calls < MaxSettingsOps
  /\ LET due == SaveDue(cfg, g_lastSavedCounter, g_autoSaveDelayMs, now)
     IN  \E ok \in (IF due THEN BOOLEAN ELSE {FALSE}) :
           /\ prefs' = IF ok THEN SaveStructPref(cfg) ELSE prefs
           /\ g_lastSavedCounter' = IF ok THEN cfg.changeCounter ELSE g_lastSavedCounter
           /\ last' = <<"SETTINGS::Update", due, ok>>
  /\ calls' = calls + 1
  /\ uptime' = Clocked
  /\ UNCHANGED console
  /\ UNCHANGED <<cfg, v, s, mirror, now, ret, start, g_autoSaveDelayMs, hardware, stamp>>

\* console command SAVE: LED::ProvokeImmediateSaveOfConfig()
HandleSAVE ==
  /\ calls < MaxSettingsOps
  /\ cfg' = ProvokeImmediateSaveOfConfig(cfg, now)
  /\ stamp' = [by |-> "ProvokeImmediateSaveOfConfig", at |-> now]
  /\ last' = <<"SAVE">>
  /\ calls' = calls + 1
  /\ uptime' = Clocked
  /\ UNCHANGED console
  /\ UNCHANGED <<v, s, mirror, now, ret, start, persisted>>

\* console command TOGGLE GRADIENT_INVERT
HandleTOGGLE_GRADIENT_INVERT ==
  /\ calls < MaxSettingsOps
  /\ cfg' = MarkChangeInConfig(
              [cfg EXCEPT !.gradientInvertColors = ~cfg.gradientInvertColors], now)
  /\ stamp' = [by |-> "MarkChangeInConfig", at |-> now]
  /\ last' = <<"TOGGLE GRADIENT_INVERT">>
  /\ calls' = calls + 1
  /\ uptime' = Clocked
  /\ UNCHANGED console
  /\ UNCHANGED <<v, s, mirror, now, ret, start, persisted>>

\* millis() advances by the default debounce interval or by 1 ms less
ClockSteps == {AutoSaveDelayDefault - 1, AutoSaveDelayDefault}

ClockAdvance ==
  /\ calls < MaxSettingsOps
  /\ \E dt \in ClockSteps :
       /\ now' = U32Add(now, dt)
       /\ last' = <<"millis", dt>>
  /\ calls' = calls + 1
  /\ uptime' = Clocked
  /\ UNCHANGED console
  /\ UNCHANGED <<cfg, v, s, mirror, ret, start, persisted, stamp>>

NextSettings ==
  \/ LEDInit
  \/ SettingsLoadConfig
  \/ SettingsUpdate
  \/ HandleSAVE
  \/ HandleTOGGLE_GRADIENT_INVERT
  \/ ClockAdvance

SpecSettings == InitSettings /\ [][NextSettings]_vars

---------------------------------------------------------------------------
(* SpecPersist: SETTINGS::Update polled from loop() without end, after at   *)
(* most MaxChanges changes of the Config; storage writes can fail          *)

\* a last-saved counter that follows changeCounter whether or not the write
\* succeeded
SavedCounterAdvancing(c, saved, ok) == c.changeCounter

\* g_lastSavedCounter after Update()'s `if (SaveConfig(ConfigId::LED))`
SavedCounterAfter(c, saved, ok) == IF ok THEN c.changeCounter ELSE saved

InitPersist ==
  /\ cfg = CoreInitConfig
  /\ v = CoreInitVars(LedCount)
  /\ now \in UptimeSamples
  /\ s = CoreInitState(now)
  /\ mirror = MirrorInit
  /\ last = <<"Init">>
  /\ ret = 0
  /\ calls = 0
  /\ start = v
  /\ Booted

\* SETTINGS::Update(), called on every pass of loop()
SettingsUpdatePolled ==
  /\ LET due == SaveDue(cfg, g_lastSavedCounter, g_autoSaveDelayMs, now)
     IN  \E ok \in (IF due THEN BOOLEAN ELSE {FALSE}) :
           /\ prefs' = IF ok THEN SaveStructPref(cfg) ELSE prefs
           /\ g_lastSavedCounter' = SavedCounterAfter(cfg, g_lastSavedCounter, ok)
           /\ last' = <<"SETTINGS::Update", due, ok>>
  /\ uptime' = Clocked
  /\ UNCHANGED <<cfg, v, s, mirror, now, ret, calls, start, g_autoSaveDelayMs, hardware,
                 stamp, console>>

\* SETTINGS::Update() with a write that succeeds
SettingsUpdateWrites == SettingsUpdatePolled /\ last'[3]

\* millis() advances; only the time up to the moment a pending save falls due
\* is followed
PersistClock ==
  /\ cfg.changeCounter # g_lastSavedCounter
  /\ ~SaveDue(cfg, g_lastSavedCounter, g_autoSaveDelayMs, now)
  /\ \E dt \in ClockSteps :
       /\ now' = U32Add(now, dt)
       /\ last' = <<"millis", dt>>
  /\ uptime' = Clocked
  /\ UNCHANGED <<cfg, v, s, mirror, ret, calls, start, persisted, stamp, console>>

\* changes of the Config per behaviour of SpecPersist; then the changes stop
MaxChanges == 2

NextPersist ==
  \/ (calls < MaxChanges /\ HandleSAVE)
  \/ (calls < MaxChanges /\ HandleTOGGLE_GRADIENT_INVERT)
  \/ SettingsUpdatePolled
  \/ PersistClock

\* loop() keeps calling Update, time keeps passing, and a write that stays due
\* succeeds in the end
SpecPersist ==
  /\ InitPersist
  /\ [][NextPersist]_vars
  /\ WF_vars(SettingsUpdatePolled)
  /\ WF_vars(PersistClock)
  /\ WF_vars(SettingsUpdateWrites)

---------------------------------------------------------------------------
(* SpecUpdate: LED::Update and the clock, after SET PARAM 1 / 8 / 9 have   *)
(* set a colour increment and effect phases short enough for one tick to   *)
(* change a pixel byte                                                     *)

\* <<colorIncrement, effectEvolveMinSteps, effectEvolveMaxSteps,
\*   processingIntervalMs>>
UpdateParamSamples ==
  {<<ColorQ, 100, 200, 10>>, <<100 * ColorQ, 100, 200, 10>>,
   <<ColorQ, 6, 12, 10>>, <<100 * ColorQ, 6, 12, 10>>, <<100 * ColorQ, 6, 12, 25>>}

UpdateConfigs ==
  {[CoreInitConfig EXCEPT !.colorIncrement = p[1],
                          !.effectEvolveMinSteps = p[2],
                          !.effectEvolveMaxSteps = p[3],
                          !.processingIntervalMs = p[4]] : p \in UpdateParamSamples}

InitUpdate ==
  /\ cfg \in UpdateConfigs
  /\ v = CoreInitVars(LedCount)
  /\ s = CoreInitState(0)
  /\ mirror = MirrorInit
  /\ now = 0
  /\ last = <<"Init">>
  /\ ret = 0
  /\ calls = 0
  /\ start = v
  /\ Booted

NextUpdate == LEDUpdate \/ Tick

SpecUpdate == InitUpdate /\ [][NextUpdate]_vars

\* millis() at LED::Init(): 0, 15 ms before the wrap to 0, 15 ms before 2^31
WrapStartSamples == {0, 0 - 15, Int32Max - 15}

\* LED::Update polled while millis() runs through the wrap
InitWrap ==
  /\ cfg \in UpdateConfigs
  /\ v = CoreInitVars(LedCount)
  /\ now \in WrapStartSamples
  /\ s = CoreInitState(now)
  /\ mirror = MirrorInit
  /\ last = <<"Init">>
  /\ ret = 0
  /\ calls = 0
  /\ start = v
  /\ Booted

SpecWrap == InitWrap /\ [][NextUpdate]_vars

---------------------------------------------------------------------------
(* SpecSettle: CORE::Fade() as every firing of the rendering gate calls it, *)
(* without end, and at most MaxRetargets LED::Set(BRIGHTNESS) calls.  The   *)
(* gradient and the pixels, which no live value depends on, and the time    *)
(* between two firings are not followed.                                   *)

\* LED::Set(BRIGHTNESS) calls per behaviour of SpecSettle; then the staged
\* targets stay as they are
MaxRetargets == 1

InitSettle ==
  /\ cfg \in {[CoreInitConfig EXCEPT !.brightnessStaging = bt,
                                     !.brightnessIncrement = bi,
                                     !.onoffStaging = ot,
                                     !.onoffIncrement = (30 * OnOffQ) \div 100,
                                     !.colorOneStaging = PixF(250, 12, 3, 0),
                                     !.colorTwoStaging = PixF(0, 255, 0, 0),
                                     !.colorIncrement = 100 * ColorQ] :
                bt \in {110 * BrightQ, 300 * BrightQ},
                bi \in {50 * BrightQ, 100 * BrightQ},
                ot \in {0, OnOffQ}}
  /\ v \in {[CoreInitVars(LedCount) EXCEPT !.brightness = b,
                                           !.onoffFactor = (37 * OnOffQ) \div 100,
                                           !.colorOne = c1] :
              b \in {0, BrightMax},
              c1 \in {PixF(0, 0, 0, 0),
                      Pix(255 * ColorQ, (21 * ColorQ) \div 2, 3 * ColorQ + 1, 0)}}
  /\ s = CoreInitState(0)
  /\ mirror = MirrorInit
  /\ now = 0
  /\ last = <<"Init">>
  /\ ret = 0
  /\ calls = 0
  /\ start = v
  /\ Booted

\* CORE::Fade(), called by LED::Update() whenever the rendering gate fires
FadePolled ==
  /\ v' = FadeVars(cfg, v)
  /\ ret' = FadeChanges(cfg, v)
  /\ last' = <<"Fade">>
  /\ uptime' = Clocked
  /\ UNCHANGED <<cfg, s, mirror, now, calls, start, persisted, stamp, console>>

NextSettle ==
  \/ FadePolled
  \/ (calls < MaxRetargets /\ LEDSetBrightness)

\* the rendering gate keeps firing
SpecSettle == InitSettle /\ [][NextSettle]_vars /\ WF_vars(FadePolled)

---------------------------------------------------------------------------
(* Device bridge: a pixel to the mirror's hue and saturation, and the      *)
(* console's way into the Config through the mirror                        *)

Max2(a, b) == IF a > b THEN a ELSE b

\* 1e-5f of the normalised range 0..1, on channel values counted in units of
\* 1/ColorQ of the range 0..255
HsvEps == ColorMax \div EpsDen

\* detail::PixelToHsv(): hue in degrees and saturation in percent, as exact
\* fractions.  (g - b) / delta lies in [-1, 1], so fmodf(., 6) returns it.
PixelToHsv(pix) ==
  LET r == constrain(pix.R, 0, ColorMax)
      g == constrain(pix.G, 0, ColorMax)
      b == constrain(pix.B, 0, ColorMax)
      w == constrain(pix.W, 0, ColorMax)
      rMix == constrain(r + w, 0, ColorMax)
      gMix == constrain(g + w, 0, ColorMax)
      bMix == constrain(b + w, 0, ColorMax)
      maxVal == Max2(rMix, Max2(gMix, bMix))
      minVal == Min2(rMix, Min2(gMix, bMix))
      delta == maxVal - minVal
      sector == IF maxVal = rMix THEN Rat(gMix - bMix, delta)
                ELSE IF maxVal = gMix THEN RatAdd(Rat(bMix - rMix, delta), <<2, 1>>)
                ELSE RatAdd(Rat(rMix - gMix, delta), <<4, 1>>)
      hue == IF delta > HsvEps THEN RatMul(<<60, 1>>, sector) ELSE <<0, 1>>
  IN  [hue |-> IF hue[1] < 0 THEN RatAdd(hue, <<360, 1>>) ELSE hue,
       saturation |-> IF maxVal <= HsvEps THEN <<0, 1>>
                      ELSE RatMul(<<100, 1>>, Rat(delta, maxVal))]

\* lroundf(constrain(brightness, 0, 255) / 255 * 100), brightness in 1/BrightQ
BrightnessToMirrorLevel(brightness) ==
  (200 * constrain(brightness, 0, BrightMax) + BrightMax) \div (2 * BrightMax)

\* the mirror after ApplyCoreConfigToMirror(), for staged colours whose hue
\* and saturation are whole numbers
ApplyCoreConfigToMirror(c, m) ==
  LET hsvOne == PixelToHsv(c.colorOneStaging)
      hsvTwo == PixelToHsv(c.colorTwoStaging)
  IN  SanitizeMirror([m EXCEPT !.hue1 = hsvOne.hue[1], !.sat1 = hsvOne.saturation[1],
                               !.hue2 = hsvTwo.hue[1], !.sat2 = hsvTwo.saturation[1],
                               !.level = BrightnessToMirrorLevel(c.brightnessStaging),
                               !.onoff = 2 * c.onoffStaging >= OnOffQ])

\* the mirror as SetMirrorColorFromPixel writes it before MirrorUpdated()
SetMirrorColorFromPixel(m, target, pix) ==
  LET hsv == PixelToHsv(PixF(pix.R, pix.G, pix.B, pix.W))
  IN  IF target = "ONE"
        THEN [m EXCEPT !.hue1 = hsv.hue[1], !.sat1 = hsv.saturation[1]]
        ELSE [m EXCEPT !.hue2 = hsv.hue[1], !.sat2 = hsv.saturation[1]]

---------------------------------------------------------------------------
(* Console: float arguments.  strtof() also reads "nan"; a NaN compares     *)
(* false with everything and is coded as a value no float field can hold.  *)

FloatNaN == 0 - Int32Max

FloatLT(a, b) == a # FloatNaN /\ b # FloatNaN /\ a < b

FloatLE(a, b) == a # FloatNaN /\ b # FloatNaN /\ a <= b

\* a != b on floats
FloatNE(a, b) == a = FloatNaN \/ b = FloatNaN \/ a # b

\* Arduino's constrain macro on floats: both comparisons fail for a NaN
constrainf(amt, low, high) ==
  IF FloatLT(amt, low) THEN low ELSE IF FloatLT(high, amt) THEN high ELSE amt

---------------------------------------------------------------------------
(* SpecCommands: console commands and HomeKit updates in any order, from   *)
(* the state CORE::Init() leaves, with the mirror as constructed or as     *)
(* InitDeviceBridge() sets it                                              *)

\* commands and updates per behaviour of SpecCommands
MaxCommands == 2

\* arguments of SET BRIGHTNESS
BrightnessArgSamples == {-10, 0, 128, 255, 300}

\* arguments <<r, g, b, w>> of SET COLOR; each gives a whole hue and saturation
ColorArgSamples ==
  {a \in {<<255, 0, 0, 0>>, <<0, 0, 255, 0>>, <<255, 255, 0, 0>>, <<0, 0, 0, 0>>,
          <<128, 0, 0, 0>>, <<200, 100, 0, 0>>, <<0, 0, 0, 255>>, <<300, -5, 0, 0>>} :
     LET hsv == PixelToHsv(PixF(constrain(a[1], 0, ByteMax), constrain(a[2], 0, ByteMax),
                                constrain(a[3], 0, ByteMax), constrain(a[4], 0, ByteMax)))
     IN  hsv.hue[2] = 1 /\ hsv.saturation[2] = 1}

\* HandleSET_BRIGHTNESS
HandleSET_BRIGHTNESS ==
  /\ calls < MaxCommands
  /\ \E arg \in BrightnessArgSamples :
       LET bri == constrain(arg, 0, ByteMax)
           newLevel == BrightnessToMirrorLevel(bri * BrightQ)
           written == [mirror EXCEPT !.level = newLevel]
       IN  /\ mirror' = IF mirror.level = newLevel THEN mirror ELSE SanitizeMirror(written)
           /\ cfg' = IF mirror.level = newLevel THEN cfg
                     ELSE ApplyMirrorToCoreConfig(cfg, written, now)
           /\ last' = <<"SET BRIGHTNESS", arg>>
  /\ calls' = calls + 1
  /\ uptime' = Clocked
  /\ UNCHANGED console
  /\ UNCHANGED <<v, s, now, ret, start, persisted>>
  /\ stamp' = Stamped

\* HandleSET_COLOR with four numbers
HandleSET_COLOR ==
  /\ calls < MaxCommands
  /\ \E target \in {"ONE", "TWO"} : \E arg \in ColorArgSamples :
       LET pix == Pix(constrain(arg[1], 0, ByteMax), constrain(arg[2], 0, ByteMax),
                      constrain(arg[3], 0, ByteMax), constrain(arg[4], 0, ByteMax))
           written == SetMirrorColorFromPixel(mirror, target, pix)
       IN  /\ mirror' = SanitizeMirror(written)
           /\ cfg' = ApplyMirrorToCoreConfig(cfg, written, now)
           /\ last' = <<"SET COLOR", target, arg>>
  /\ calls' = calls + 1
  /\ uptime' = Clocked
  /\ UNCHANGED console
  /\ UNCHANGED <<v, s, now, ret, start, persisted>>
  /\ stamp' = Stamped

\* the Config member "SET PARAM <idx>" writes
ParamField(idx) ==
  IF idx = 1 THEN "colorIncrement"
  ELSE IF idx = 2 THEN "brightnessIncrement"
  ELSE IF idx = 3 THEN "onoffIncrement"
  ELSE IF idx = 4 THEN "processingIntervalMs"
  ELSE IF idx = 5 THEN "effectIntervalMs"
  ELSE IF idx = 6 THEN "effectMinAmplitude"
  ELSE IF idx = 7 THEN "effectMaxAmplitude"
  ELSE IF idx = 8 THEN "effectEvolveMinSteps"
  ELSE IF idx = 9 THEN "effectEvolveMaxSteps"
  ELSE IF idx = 10 THEN "effectHoldMinSteps"
  ELSE "effectHoldMaxSteps"

\* parameters 4 and 5 are read with strtol, the others with strtof
ParamIsFloat(idx) == idx \notin {4, 5}

\* the argument 1.0 in the units of the member
ParamOne(idx) ==
  IF idx = 1 THEN ColorQ
  ELSE IF idx = 2 THEN BrightQ
  ELSE IF idx = 3 THEN OnOffQ
  ELSE IF idx \in {6, 7} THEN ScaleQ
  ELSE 1

\* arguments of SET PARAM <idx>: 0, 2, and "nan" or -1
ParamArgSamples(idx) ==
  {0, 2 * ParamOne(idx)} \cup (IF ParamIsFloat(idx) THEN {FloatNaN} ELSE {-1})

\* HandleSET_PARAM, parameters 1 to 11
HandleSET_PARAM_Any ==
  /\ calls < MaxCommands
  /\ \E idx \in 1..11 : \E value \in ParamArgSamples(idx) :
       LET rejected == IF ParamIsFloat(idx) THEN FloatLE(value, 0) ELSE value <= 0
       IN  /\ cfg' = IF rejected THEN cfg
                     ELSE MarkChangeInConfig([cfg EXCEPT ![ParamField(idx)] = value], now)
           /\ last' = <<"SET PARAM", idx, value, ~rejected>>
  /\ calls' = calls + 1
  /\ uptime' = Clocked
  /\ UNCHANGED console
  /\ UNCHANGED <<v, s, mirror, now, ret, start, persisted>>
  /\ stamp' = Stamped

\* arguments of SET GRADIENT PADDINGBEGIN / PADDINGVALUE: -1.0, 0.25, 2.0, "nan"
PaddingArgSamples == {-GradQ, GradQ \div 4, 2 * GradQ, FloatNaN}

\* HandleSET_GRADIENT, subcommands PADDINGBEGIN and PADDINGVALUE
HandleSET_GRADIENT_PADDING ==
  /\ calls < MaxCommands
  /\ \E sub \in {"PADDINGBEGIN", "PADDINGVALUE"} : \E val \in PaddingArgSamples :
       LET clamped == IF sub = "PADDINGBEGIN"
                        THEN constrainf(val, 0, (4 * GradQ) \div 10)
                        ELSE constrainf(val, 0, GradQ)
           field == IF sub = "PADDINGBEGIN" THEN "gradientPaddingBegin"
                    ELSE "gradientPaddingValue"
       IN  /\ cfg' = IF FloatNE(cfg[field], clamped)
                       THEN MarkChangeInConfig([cfg EXCEPT ![field] = clamped], now)
                       ELSE cfg
           /\ last' = <<"SET GRADIENT", sub, val>>
  /\ calls' = calls + 1
  /\ uptime' = Clocked
  /\ UNCHANGED console
  /\ UNCHANGED <<v, s, mirror, now, ret, start, persisted>>
  /\ stamp' = Stamped

\* HandleSET_GRADIENT, subcommand INTERPOLATION
HandleSET_GRADIENT_INTERPOLATION ==
  /\ calls < MaxCommands
  /\ \E interp \in InterpolationMode :
       /\ cfg' = IF cfg.gradientInterpolationMode # interp
                   THEN MarkChangeInConfig(
                          [cfg EXCEPT !.gradientInterpolationMode = interp], now)
                   ELSE cfg
       /\ last' = <<"SET GRADIENT", "INTERPOLATION", interp>>
  /\ calls' = calls + 1
  /\ uptime' = Clocked
  /\ UNCHANGED console
  /\ UNCHANGED <<v, s, mirror, now, ret, start, persisted>>
  /\ stamp' = Stamped

\* HandleTOGGLE, subcommand ONOFF: SetMirrorOnOff(!mirror.onoff)
HandleTOGGLE_ONOFF ==
  /\ calls < MaxCommands
  /\ LET written == [mirror EXCEPT !.onoff = ~mirror.onoff]
     IN  /\ mirror' = SanitizeMirror(written)
         /\ cfg' = ApplyMirrorToCoreConfig(cfg, written, now)
  /\ last' = <<"TOGGLE ONOFF">>
  /\ calls' = calls + 1
  /\ uptime' = Clocked
  /\ UNCHANGED console
  /\ UNCHANGED <<v, s, now, ret, start, persisted>>
  /\ stamp' = Stamped

\* HandleTOGGLE, subcommand HSL_RGBW: ToggleMirrorRgbwConversion()
HandleTOGGLE_HSL_RGBW ==
  /\ calls < MaxCommands
  /\ LET written == [mirror EXCEPT !.rgbw = ~mirror.rgbw]
     IN  /\ mirror' = SanitizeMirror(written)
         /\ cfg' = ApplyMirrorToCoreConfig(cfg, written, now)
  /\ last' = <<"TOGGLE HSL_RGBW">>
  /\ calls' = calls + 1
  /\ uptime' = Clocked
  /\ UNCHANGED console
  /\ UNCHANGED <<v, s, now, ret, start, persisted>>
  /\ stamp' = Stamped

InitCommands ==
  /\ cfg = CoreInitConfig
  /\ v = CoreInitVars(LedCount)
  /\ s = CoreInitState(0)
  /\ mirror \in {MirrorInit, ApplyCoreConfigToMirror(CoreInitConfig, MirrorInit)}
  /\ now = 0
  /\ last = <<"Init">>
  /\ ret = 0
  /\ calls = 0
  /\ start = v
  /\ Booted

NextCommands ==
  \/ HandleSET_BRIGHTNESS
  \/ HandleSET_COLOR
  \/ HandleSET_PARAM_Any
  \/ HandleSET_GRADIENT_PADDING
  \/ HandleSET_GRADIENT_INTERPOLATION
  \/ HandleTOGGLE_ONOFF
  \/ HandleTOGGLE_HSL_RGBW
  \/ (calls < MaxCommands /\ HandleSET_GRADIENT_MODE)
  \/ (calls < MaxCommands /\ SetGradientEdge)
  \/ (calls < MaxCommands /\ SetGradientCenter)
  \/ (calls < MaxCommands /\ HandleTOGGLE_GRADIENT_INVERT)
  \/ (calls < MaxCommands /\ HandleTOGGLE_EFFECT)
  \/ (calls < MaxCommands /\ DEV_Color_Light_update)
  \/ (calls < MaxCommands /\ Tick)

SpecCommands == InitCommands /\ [][NextCommands]_vars

---------------------------------------------------------------------------
(* Console input: Process(), EvaluateCommand() and the pending restart.    *)
(* A character is a one-character string, a line a sequence of characters. *)

CMD_BUFFER_CAPACITY == 96

\* 10000UL: the delay HandleSYSTEM_RESET schedules
RestartDelayMs == 10000

SAVE == <<"S", "A", "V", "E">>
SYSTEM == <<"S", "Y", "S", "T", "E", "M">>
RESET == <<"R", "E", "S", "E", "T">>

Blank == {" ", "\t"}

\* strncasecmp(line, word, Len(word)) == 0, for input typed in upper case
HasPrefix(line, word) ==
  Len(line) >= Len(word) /\ SubSeq(line, 1, Len(word)) = word

RECURSIVE TrimLeading(_)
TrimLeading(line) ==
  IF line # <<>> /\ Head(line) \in Blank THEN TrimLeading(Tail(line)) ELSE line

\* a deadline test on the unsigned values themselves
RestartDueUnsigned(t, deadline) == U32GE(t, deadline)

\* ProcessPendingRestart's test: static_cast<int32_t>(now - deadline) >= 0
RestartDue(t, deadline) == ~(U32Sub(t, deadline) < 0)

\* ScheduleSystemRestart(delayMs) at millis() = t, up ms after Init
ScheduleSystemRestart(con, delayMs, t, up) ==
  [con EXCEPT !.systemRestartPending = TRUE,
              !.systemRestartDeadlineMs = U32Add(t, delayMs),
              !.requests = con.requests + 1,
              !.requestedAt = up,
              !.firstRequestedAt =
                 IF con.systemRestartPending THEN con.firstRequestedAt ELSE up]

\* HandleSYSTEM and HandleSYSTEM_RESET on the text after "SYSTEM"
HandleSYSTEM(con, pos, t, up) ==
  LET sub == TrimLeading(pos)
  IN  IF HasPrefix(sub, RESET) /\ TrimLeading(SubSeq(sub, 6, Len(sub))) = <<>>
        THEN ScheduleSystemRestart(con, RestartDelayMs, t, up)
        ELSE con

\* EvaluateCommand(line) on st = [cfg, con].  HELP, SET and TOGGLE lines are
\* not part of the input modelled here; any other line is an unknown command.
EvaluateCommand(st, line, t, up) ==
  LET p == TrimLeading(line)
      noted == [st.con EXCEPT !.evaluated =
                  Append(st.con.evaluated, [text |-> line, line |-> st.con.line])]
  IN  IF HasPrefix(p, SYSTEM)
        THEN [cfg |-> st.cfg,
              con |-> HandleSYSTEM(noted, SubSeq(p, 7, Len(p)), t, up)]
      ELSE IF HasPrefix(p, SAVE)
        THEN [cfg |-> ProvokeImmediateSaveOfConfig(st.cfg, t), con |-> noted]
      ELSE [cfg |-> st.cfg, con |-> noted]

\* the body of Process()'s loop for one character read from Serial
ProcessChar(st, ch, t, up) ==
  IF ch = "\r" THEN st
  ELSE IF ch = "\n"
    THEN LET done == IF Len(st.con.cmdBuffer) > 0
                       THEN EvaluateCommand(st, st.con.cmdBuffer, t, up)
                       ELSE st
         IN  [done EXCEPT !.con.cmdBuffer = <<>>, !.con.line = <<>>]
  ELSE IF Len(st.con.cmdBuffer) + 1 < CMD_BUFFER_CAPACITY
    THEN [st EXCEPT !.con.cmdBuffer = Append(st.con.cmdBuffer, ch),
                    !.con.line = Append(st.con.line, ch)]
  ELSE [st EXCEPT !.con.cmdBuffer = <<>>, !.con.line = Append(st.con.line, ch)]

\* Process()'s loop: while (Serial.available() > 0) { ch = Serial.read(); ... },
\* with n of the characters of con.serial arrived at the call
RECURSIVE ProcessInput(_, _, _, _)
ProcessInput(st, n, t, up) ==
  IF st.con.serial = <<>> \/ n = 0 THEN st
  ELSE ProcessInput(ProcessChar([st EXCEPT !.con.serial = Tail(st.con.serial)],
                                Head(st.con.serial), t, up),
                    n - 1, t, up)

\* ProcessPendingRestart(); ESP.restart() is counted, the reboot is not modelled
ProcessPendingRestart(con, t) ==
  IF con.systemRestartPending /\ RestartDue(t, con.systemRestartDeadlineMs)
    THEN [con EXCEPT !.systemRestartPending = FALSE, !.restarts = con.restarts + 1]
    ELSE con

---------------------------------------------------------------------------
(* SpecProcess: the console polled from loop() while serial input arrives  *)
(* and the clock advances                                                  *)

\* Process calls and clock steps per behaviour of SpecProcess
MaxProcessOps == 7

Filler(n) == [i \in 1..n |-> "x"]

\* what is typed during a run
SerialInputSamples ==
  { SYSTEM \o <<" ">> \o RESET \o <<"\n">>,
    SYSTEM \o <<" ">> \o RESET \o <<"\r", "\n">> \o SYSTEM \o <<" ">> \o RESET \o <<"\n">>,
    SYSTEM \o <<" ">> \o RESET \o <<" ", "1", "\n">>,
    SAVE \o <<"\n">>,
    Filler(CMD_BUFFER_CAPACITY - 1) \o <<"\n">>,
    Filler(CMD_BUFFER_CAPACITY) \o <<"\n">>,
    Filler(CMD_BUFFER_CAPACITY) \o SAVE \o <<"\n">> }

\* millis() at the start: 0, 5 s before the wrap to 0, 5 s before 2^31
ProcessStartSamples == {0, 0 - 5000, Int32Max - 5000}

\* number of characters Serial holds at a Process() call: none, one, the rest
\* of the line, or everything typed
Available(serial) ==
  {0, Len(serial)}
    \cup (IF serial = <<>> THEN {}
          ELSE {1, CHOOSE n \in 1..Len(serial) :
                     serial[n] = "\n" /\ \A k \in 1..(n - 1) : serial[k] # "\n"})

InitProcess ==
  /\ cfg = CoreInitConfig
  /\ v = CoreInitVars(LedCount)
  /\ now \in ProcessStartSamples
  /\ s = CoreInitState(now)
  /\ mirror = MirrorInit
  /\ last = <<"Init">>
  /\ ret = 0
  /\ calls = 0
  /\ start = v
  /\ g_lastSavedCounter = 0
  /\ prefs = NoBlob
  /\ g_autoSaveDelayMs = AutoSaveDelayDefault
  /\ hardware = TRUE
  /\ stamp = [by |-> "Init", at |-> 0]
  /\ console \in {[ConsoleInit EXCEPT !.serial = typed] : typed \in SerialInputSamples}
  /\ uptime = UptimeInit

\* CONSOLE::Process()
Process ==
  /\ calls < MaxProcessOps
  /\ \E n \in Available(console.serial) :
       LET read == ProcessInput([cfg |-> cfg, con |-> console], n, now, uptime.ms)
       IN  /\ cfg' = read.cfg
           /\ console' = ProcessPendingRestart(read.con, now)
           /\ last' = <<"Process", n>>
  /\ stamp' = IF cfg'.changeCounter # cfg.changeCounter
                THEN [by |-> "ProvokeImmediateSaveOfConfig", at |-> now]
                ELSE stamp
  /\ calls' = calls + 1
  /\ uptime' = Clocked
  /\ UNCHANGED <<v, s, mirror, now, ret, start, persisted>>

\* millis() advances between two Process() calls
ProcessClockSteps == {4999, 5001}

ProcessClock ==
  /\ calls < MaxProcessOps
  /\ \E dt \in ProcessClockSteps :
       /\ now' = U32Add(now, dt)
       /\ last' = <<"millis", dt>>
  /\ calls' = calls + 1
  /\ uptime' = Clocked
  /\ UNCHANGED <<cfg, v, s, mirror, ret, start, persisted, stamp, console>>

NextProcess == Process \/ ProcessClock

SpecProcess == InitProcess /\ [][NextProcess]_vars

---------------------------------------------------------------------------
(* The ten faded channels, by name:                                        *)
(* <<live, start, target, increment, top of range, units per 1.0>>         *)

FadedChannelIds ==
  {<<"brightness">>, <<"onoff">>}
    \cup {<<"colorOne", ch>> : ch \in Chan} \cup {<<"colorTwo", ch>> : ch \in Chan}

FadedChannel(id, c, vv, st) ==
  IF id[1] = "brightness"
    THEN <<vv.brightness, st.brightness, c.brightnessStaging, c.brightnessIncrement,
           BrightMax, BrightQ>>
  ELSE IF id[1] = "onoff"
    THEN <<vv.onoffFactor, st.onoffFactor, c.onoffStaging, c.onoffIncrement,
           OnOffQ, OnOffQ>>
  ELSE IF id[1] = "colorOne"
    THEN <<vv.colorOne[id[2]], st.colorOne[id[2]], c.colorOneStaging[id[2]],
           c.colorIncrement, ColorMax, ColorQ>>
  ELSE <<vv.colorTwo[id[2]], st.colorTwo[id[2]], c.colorTwoStaging[id[2]],
         c.colorIncrement, ColorMax, ColorQ>>

TargetsInRange(c, vv) ==
  \A id \in FadedChannelIds :
    LET ch == FadedChannel(id, c, vv, vv) IN 0 <= ch[3] /\ ch[3] <= ch[5]

AllAtTarget(c, vv) ==
  \A id \in FadedChannelIds :
    LET ch == FadedChannel(id, c, vv, vv) IN ch[1] = ch[3]

AllWithinEps(c, vv) ==
  \A id \in FadedChannelIds :
    LET ch == FadedChannel(id, c, vv, vv) IN Abs(ch[3] - ch[1]) <= (ch[6] \div EpsDen)

IncrementsBeyondEps(c, vv) ==
  \A id \in FadedChannelIds :
    LET ch == FadedChannel(id, c, vv, vv) IN ch[4] > (ch[6] \div EpsDen)

Between(a, x, b) == (a <= x /\ x <= b) \/ (b <= x /\ x <= a)

\* after `calls` Fade calls a channel that started at st is at its target if
\* calls >= ceil(|target - st| / step), and st +/- calls * step short of it otherwise
ConvergesOnTime(live, st, target, step, n) ==
  LET need == CeilDiv(Abs(target - st), step)
  IN  /\ n >= need => live = target
      /\ n < need => /\ live # target
                     /\ live = (IF target > st THEN st + n * step ELSE st - n * step)
      /\ Between(st, live, target)

StepRule(old, target, step) ==
  IF Abs(target - old) <= step THEN target
  ELSE IF target > old THEN old + step ELSE old - step

\* C2 (as stated): one Fade call sets every channel to the target if the target
\* is within one increment of the old value, and to old +/- increment otherwise.
C2_Original ==
  [][\A id \in FadedChannelIds :
    LET ch == FadedChannel(id, cfg, v', v) IN ch[1] = StepRule(ch[2], ch[3], ch[4])]_vars

\* C2 (amended): one Fade call moves every channel by at most its increment and
\* to a value between the old value and the target inclusive: the documented
\* step, clamped to the channel's legal range; it is the documented step itself
\* whenever the target lies in the legal range.
C2_FadeStep ==
  [][\A id \in FadedChannelIds :
    LET ch == FadedChannel(id, cfg, v', v) IN
       /\ ch[1] = constrain(StepRule(ch[2], ch[3], ch[4]), 0, ch[5])
       /\ (0 <= ch[3] /\ ch[3] <= ch[5]) => ch[1] = StepRule(ch[2], ch[3], ch[4])
       /\ Abs(ch[1] - ch[2]) <= ch[4]
       /\ Between(ch[2], ch[1], ch[3])]_vars

\* after the first Fade call: brightness snapped onto its target and the on/off
\* factor moved by exactly one increment towards a target further away
C2_Witness ==
  /\ calls = 1
  /\ last = <<"Fade">>
  /\ start.onoffFactor # cfg.onoffStaging
  /\ Abs(cfg.onoffStaging - start.onoffFactor) > cfg.onoffIncrement
  /\ Abs(v.onoffFactor - start.onoffFactor) = cfg.onoffIncrement
  /\ start.brightness # cfg.brightnessStaging
  /\ v.brightness = cfg.brightnessStaging

\* how many of the ten channels a call changed at all, and by more than 1e-5
NumChanged(c, new, old) ==
  Cardinality({id \in FadedChannelIds :
                 LET ch == FadedChannel(id, c, new, old) IN ch[1] # ch[2]})

NumChangedBeyondEps(c, new, old) ==
  Cardinality({id \in FadedChannelIds :
                 LET ch == FadedChannel(id, c, new, old)
                 IN  Abs(ch[1] - ch[2]) > (ch[6] \div EpsDen)})

---------------------------------------------------------------------------
(* Claims about the reachable states of Spec *)

InRange(x, top) == 0 <= x /\ x <= top

---------------------------------------------------------------------------
(* Claims about ComputeGradient and ApplyOutputScaling (SpecGradient) *)

Computed == last = <<"ComputeGradient">> \/ last = <<"ApplyOutputScaling">>

\* a live colour converted to bytes
Bytes(colour) == [ch \in Chan |-> colour[ch] \div ColorQ]

Primary == IF cfg.gradientInvertColors THEN v.colorTwo ELSE v.colorOne

Secondary == IF cfg.gradientInvertColors THEN v.colorOne ELSE v.colorTwo

C5_Scenario ==
  /\ v.Count = 3
  /\ v.colorOne = PixF(255, 0, 0, 0)
  /\ v.colorTwo = PixF(0, 0, 255, 0)
  /\ cfg.gradientMode = LINEAR
  /\ ~cfg.gradientInvertColors
  /\ v.brightness = BrightMax
  /\ v.onoffFactor = OnOffQ
  /\ \A i \in 0..2 : \A ch \in Chan : v.Scale[i][ch] = <<1, 1>>

\* C5 (as stated): with N=3, colorOne=(255,0,0,0), colorTwo=(0,0,255,0), LINEAR
\* without inversion, brightness 255, on/off factor 1 and Scale 1.0,
\* ComputeGradient followed by ApplyOutputScaling yields
\* Pixels = [(255,0,0,0), (128,0,128,0), (0,0,255,0)].
C5_Original ==
  (last = <<"ApplyOutputScaling">> /\ C5_Scenario)
    => /\ v.Pixels[0] = Pix(255, 0, 0, 0)
       /\ v.Pixels[1] = Pix(128, 0, 128, 0)
       /\ v.Pixels[2] = Pix(0, 0, 255, 0)

\* the scenario's outcome: the middle pixel is (127,0,127,0)
C5_Witness ==
  /\ last = <<"ApplyOutputScaling">>
  /\ C5_Scenario
  /\ v.Pixels[0] = Pix(255, 0, 0, 0)
  /\ v.Pixels[1] = Pix(127, 0, 127, 0)
  /\ v.Pixels[2] = Pix(0, 0, 255, 0)

\* C6: in LINEAR mode with N > 1, for any live colours and either inversion
\* setting, Colors[0] is the primary colour converted to bytes and Colors[N-1]
\* the secondary colour converted to bytes; with N <= 1 the only pixel is the
\* primary colour.
C6_LinearEndpoints ==
  (Computed /\ cfg.gradientMode = LINEAR)
    => /\ v.Colors[0] = Bytes(Primary)
       /\ v.Count > 1 => v.Colors[v.Count - 1] = Bytes(Secondary)

\* an inverted LINEAR gradient over several pixels between two different
\* colours with fractional channel values
C6_Witness ==
  /\ last = <<"ComputeGradient">>
  /\ cfg.gradientMode = LINEAR
  /\ cfg.gradientInvertColors
  /\ v.Count >= 3
  /\ v.colorOne.R % ColorQ # 0
  /\ v.Colors[0] = Bytes(v.colorTwo)
  /\ v.Colors[v.Count - 1] = Bytes(v.colorOne)
  /\ Bytes(v.colorOne) # Bytes(v.colorTwo)

\* C7: in MIDPOINT_SPLIT mode, for every N >= 1, exactly the pixels with index
\* < ceil(N/2) get the primary colour and all others the secondary colour, no
\* pixel is a blend, and primary is colorTwo when gradientInvertColors is true
\* and colorOne otherwise.
C7_MidpointSplit ==
  (Computed /\ cfg.gradientMode = MIDPOINT_SPLIT)
    => \A i \in 0..(v.Count - 1) :
         v.Colors[i] = IF i < CeilDiv(v.Count, 2)
                         THEN Bytes(IF cfg.gradientInvertColors THEN v.colorTwo
                                                               ELSE v.colorOne)
                         ELSE Bytes(IF cfg.gradientInvertColors THEN v.colorOne
                                                               ELSE v.colorTwo)

\* an inverted split of an odd number of pixels: the middle pixel is primary
C7_Witness ==
  /\ last = <<"ComputeGradient">>
  /\ cfg.gradientMode = MIDPOINT_SPLIT
  /\ cfg.gradientInvertColors
  /\ v.Count = 9
  /\ Bytes(v.colorOne) # Bytes(v.colorTwo)
  /\ v.Colors[4] = Bytes(v.colorTwo)
  /\ v.Colors[5] = Bytes(v.colorOne)

\* EDGE_CENTER zones of pixel i, for the stored edgeSize / centerSize.  The
\* position x = i / (N - 1) (0 for N = 1) and the zone ends are compared after
\* multiplying by 2 * GradQ * (N - 1).
ZoneScale == IF v.Count <= 1 THEN 1 ELSE v.Count - 1

ZonePosition(i) == IF v.Count <= 1 THEN 0 ELSE 2 * GradQ * i

TransitionWidth2 == GradQ - 2 * cfg.gradientMiddleEdgeSize - cfg.gradientMiddleCenterSize

InEdgeZone(i) ==
  \/ ZonePosition(i) <= 2 * cfg.gradientMiddleEdgeSize * ZoneScale
  \/ ZonePosition(i) >= (2 * GradQ - 2 * cfg.gradientMiddleEdgeSize) * ZoneScale

\* strictly inside the center zone, which is centred on 0.5
InCenterZone(i) ==
  /\ ZonePosition(i) > (GradQ - cfg.gradientMiddleCenterSize) * ZoneScale
  /\ ZonePosition(i) < (GradQ + cfg.gradientMiddleCenterSize) * ZoneScale

ValidEdgeCenter ==
  /\ InRange(cfg.gradientMiddleEdgeSize, GradQ \div 2)
  /\ InRange(cfg.gradientMiddleCenterSize, GradQ)
  /\ TransitionWidth2 >= 0

\* C8 (as stated): in EDGE_CENTER mode, for every valid edgeSize/centerSize
\* pair, pixels in the edge zones get the pure primary colour and pixels in the
\* center zone get the pure secondary colour, also when the transition width is
\* zero.
C8_Original ==
  (Computed /\ cfg.gradientMode = EDGE_CENTER /\ ValidEdgeCenter)
    => \A i \in 0..(v.Count - 1) :
         /\ InEdgeZone(i) => v.Colors[i] = Bytes(Primary)
         /\ InCenterZone(i) => v.Colors[i] = Bytes(Secondary)

\* C8, transition width above zero: what the code does satisfy
C8_WithTransition ==
  (Computed /\ cfg.gradientMode = EDGE_CENTER /\ ValidEdgeCenter /\ TransitionWidth2 > 0)
    => \A i \in 0..(v.Count - 1) :
         /\ InEdgeZone(i) => v.Colors[i] = Bytes(Primary)
         /\ InCenterZone(i) => v.Colors[i] = Bytes(Secondary)

\* edgeSize 0.25, centerSize 0.5 on 3 pixels: the middle pixel, at the centre of
\* the center zone, is the primary colour
C8_Witness ==
  /\ last = <<"ComputeGradient">>
  /\ cfg.gradientMode = EDGE_CENTER
  /\ cfg.gradientMiddleEdgeSize = GradQ \div 4
  /\ cfg.gradientMiddleCenterSize = GradQ \div 2
  /\ v.Count = 3
  /\ InCenterZone(1)
  /\ Bytes(Primary) # Bytes(Secondary)
  /\ v.Colors[1] = Bytes(Primary)

\* LINEAR_PADDING: the primary weight the documentation gives pixel i of n >= 2,
\* as <<numerator, denominator>>: padValue up to padStart * (n - 1), 1 - padValue
\* from (1 - padStart) * (n - 1) on, and on the straight line through these two
\* points in between
PaddedPrimaryWeight(i, n) ==
  LET padStart == cfg.gradientPaddingBegin
      padValue == cfg.gradientPaddingValue
      lo == padStart * (n - 1)
      hi == (GradQ - padStart) * (n - 1)
  IN  IF i * GradQ <= lo THEN <<padValue, GradQ>>
      ELSE IF i * GradQ >= hi THEN <<GradQ - padValue, GradQ>>
      ELSE <<padValue * (hi - i * GradQ) + (GradQ - padValue) * (i * GradQ - lo),
             GradQ * (hi - lo)>>

\* C9: in LINEAR_PADDING mode with N >= 2 pixel i is the blend of primary and
\* secondary with primary weight padValue for i <= padStart*(N-1), 1 - padValue
\* for i >= (1-padStart)*(N-1) and the linear interpolation between the two in
\* between, the weights of pixel i and pixel N-1-i summing to 1; with N = 1 the
\* single pixel is the 0.5 blend.
C9_LinearPadding ==
  (Computed /\ cfg.gradientMode = LINEAR_PADDING)
    => IF v.Count = 1
         THEN v.Colors[0] = applyBlend(Primary, Secondary, <<1, 2>>)
         ELSE \A i \in 0..(v.Count - 1) :
                LET w == PaddedPrimaryWeight(i, v.Count)
                    m == PaddedPrimaryWeight(v.Count - 1 - i, v.Count)
                IN  /\ v.Colors[i] = applyBlend(Primary, Secondary, <<w[2] - w[1], w[2]>>)
                    /\ w[1] * m[2] + m[1] * w[2] = w[2] * m[2]

\* ten pixels with padding 0.1 / 0.95 between two different colours: pixel 0 is
\* in the padded zone, pixel 4 is in the interpolated zone, neither is pure
C9_Witness ==
  /\ last = <<"ComputeGradient">>
  /\ cfg.gradientMode = LINEAR_PADDING
  /\ cfg.gradientPaddingBegin = GradQ \div 10
  /\ cfg.gradientPaddingValue = (19 * GradQ) \div 20
  /\ v.Count = 10
  /\ v.colorOne = PixF(255, 0, 0, 0) /\ v.colorTwo = PixF(0, 0, 255, 0)
  /\ ~cfg.gradientInvertColors
  /\ v.Colors[0] = Pix(242, 0, 12, 0)
  /\ v.Colors[4] # v.Colors[0] /\ v.Colors[4] # v.Colors[9]

---------------------------------------------------------------------------
(* Claims about the console's gradient setters (SpecConsole) *)

---------------------------------------------------------------------------
(* Claims about Effect and ShiftScaleChannel (SpecEffect) *)

One == <<1, 1>>

\* the step is an Effect() call made with the effect active
ActiveEffectStep == last'[1] = "Effect" /\ cfg.effectActive

\* channel ch of Scale after the step is channel ch before it, moved one
\* position forward with newValue at index 0
ShiftedForward(ch, newValue) ==
  \A i \in 0..(v.Count - 1) :
    v'.Scale[i][ch] = IF i = 0 THEN newValue ELSE v.Scale[i - 1][ch]

\* ... moved one position backward with newValue at index Count - 1
ShiftedBackward(ch, newValue) ==
  \A i \in 0..(v.Count - 1) :
    v'.Scale[i][ch] = IF i = v.Count - 1 THEN newValue ELSE v.Scale[i + 1][ch]

\* C11: after one effect tick with effectActive true, Scale channels R and B
\* are their previous contents shifted forward by one position with the
\* generator's new currentOutput at index 0, and channels G and W are shifted
\* backward by one position with the new currentOutput at index N-1; no other
\* entry is altered or reordered.
C11_ShiftByOne ==
  [][ActiveEffectStep =>
       /\ ShiftedForward("R", v'.Effect[0].currentOutput)
       /\ ShiftedBackward("G", v'.Effect[1].currentOutput)
       /\ ShiftedForward("B", v'.Effect[2].currentOutput)
       /\ ShiftedBackward("W", v'.Effect[3].currentOutput)]_vars

\* three ticks with the effect active have filled the R and the G channel with
\* three different values, the newest at index 0 of R and at index 2 of G
C11_Witness ==
  /\ last[1] = "Effect"
  /\ cfg.effectActive
  /\ calls = 3
  /\ v.Count = 3
  /\ v.Scale[0].R = v.Effect[0].currentOutput
  /\ v.Scale[2].R = One
  /\ v.Scale[1].R # One /\ v.Scale[1].R # v.Scale[0].R /\ v.Scale[0].R # One
  /\ v.Scale[2].G = v.Effect[1].currentOutput
  /\ v.Scale[0].G = One
  /\ v.Scale[1].G # One /\ v.Scale[1].G # v.Scale[2].G /\ v.Scale[2].G # One

\* C12 (as stated): once effectActive is false and stays false, after at most
\* N effect ticks every entry of Scale in each of the channels R, G, B and W is
\* 1.0, whatever the buffer held when the effect was disabled.
C12_Original ==
  (last[1] = "Effect" /\ ~cfg.effectActive /\ last[3] >= v.Count)
    => \A i \in 0..(v.Count - 1) : \A ch \in Chan : v.Scale[i][ch] = One

\* what the code does: channel R is 1.0 after ceil(N / 4) ticks, the channels
\* G, B and W are left as they were
C12_OnlyRed ==
  [][(last'[1] = "Effect" /\ ~cfg.effectActive)
       => /\ \A i \in 0..(v.Count - 1) :
               /\ v'.Scale[i].G = v.Scale[i].G
               /\ v'.Scale[i].B = v.Scale[i].B
               /\ v'.Scale[i].W = v.Scale[i].W
          /\ last'[3] >= CeilDiv(v.Count, 4)
               => \A i \in 0..(v.Count - 1) : v'.Scale[i].R = One]_vars

\* the effect has been off for N ticks: R is 1.0 throughout, G and B still
\* hold a value of the animation
C12_Witness ==
  /\ last[1] = "Effect"
  /\ ~cfg.effectActive
  /\ last[3] >= v.Count
  /\ \A i \in 0..(v.Count - 1) : v.Scale[i].R = One
  /\ \E i \in 0..(v.Count - 1) : v.Scale[i].G # One
  /\ \E i \in 0..(v.Count - 1) : v.Scale[i].B # One

\* generator n re-plans in the step: its currentStep exceeds its numSteps
Replans(n) == v.Effect[n].currentStep > v.Effect[n].numSteps

RatAbs(x) == <<Abs(x[1]), x[2]>>

\* the jitter factor 0.8 + r * 0.4 of a draw r
Jitter(r) == randomFloat(<<4, 5>>, <<6, 5>>, r)

\* the step count the documentation gives an evolve phase from prev to next:
\* |next - prev| mapped linearly from the amplitude range onto the evolve step
\* range, times the jitter factor, as an integer
DocumentedEvolveSteps(c, prev, next, r) ==
  LET mapped == mapFloatToFloat(RatAbs(RatSub(next, prev)),
                                Rat(c.effectMinAmplitude, ScaleQ),
                                Rat(c.effectMaxAmplitude, ScaleQ),
                                <<c.effectEvolveMinSteps, 1>>,
                                <<c.effectEvolveMaxSteps, 1>>)
      jittered == RatMul(mapped, Jitter(r))
  IN  jittered[1] \div jittered[2]

\* C14 (as stated): when a generator starts an evolve phase its step count is
\* the linear map of |next - prev| from the amplitude range onto
\* [effectEvolveMinSteps, effectEvolveMaxSteps], times the jitter factor in
\* [0.8, 1.2]; a rising and a falling change of the same size get the same
\* count.
C14_Original ==
  [][ActiveEffectStep =>
       \A n \in 0..3 :
         (Replans(n) /\ ~v.Effect[n].hold)
           => v'.Effect[n].numSteps =
                DocumentedEvolveSteps(cfg, v'.Effect[n].prev, v'.Effect[n].next,
                                      last'[2][n].stretch)]_vars

\* generators 0 and 2 have started an evolve phase in the same tick with the
\* same jitter, one rising and one falling by the same amount, and have
\* different step counts
C14_Witness ==
  /\ last[1] = "Effect"
  /\ cfg.effectActive
  /\ calls = 1
  /\ last[2][0].stretch = last[2][2].stretch
  /\ RatSub(v.Effect[0].next, v.Effect[0].prev)[1] > 0
  /\ RatSub(v.Effect[2].next, v.Effect[2].prev)[1] < 0
  /\ RatAbs(RatSub(v.Effect[0].next, v.Effect[0].prev))
       = RatAbs(RatSub(v.Effect[2].next, v.Effect[2].prev))
  /\ v.Effect[0].numSteps > v.Effect[2].numSteps
  /\ v.Effect[2].numSteps =
       (cfg.effectEvolveMinSteps * Jitter(last[2][2].stretch)[1])
         \div Jitter(last[2][2].stretch)[2]

RatBetween(a, x, b) == (RatLE(a, x) /\ RatLE(x, b)) \/ (RatLE(b, x) /\ RatLE(x, a))

\* the outputs of all generators and all Scale entries are defined values,
\* and the step count used as divisor is at least 1
EffectOutputsDefined ==
  /\ (last[1] = "Effect" /\ cfg.effectActive)
       => \A n \in 0..3 :
            /\ v.Effect[n].numSteps >= 1
            /\ ~IsNaN(v.Effect[n].currentOutput)
            /\ RatBetween(v.Effect[n].prev, v.Effect[n].currentOutput, v.Effect[n].next)
  /\ \A i \in 0..(v.Count - 1) : \A ch \in Chan : ~IsNaN(v.Scale[i][ch])

\* C15 (as stated): for every configuration the setters accept (every effect
\* amplitude, evolve-step and hold-step parameter > 0), whenever
\* currentStep / numSteps is evaluated numSteps >= 1, so every currentOutput
\* and every Scale entry is a defined value, currentOutput between prev and
\* next.
C15_Original == EffectOutputsDefined

\* the same for the configurations whose smallest evolve phase, 0.8 times
\* effectEvolveMinSteps, and smallest hold phase have one step or more
C15_StepsAtLeastOne ==
  (4 * cfg.effectEvolveMinSteps >= 5 /\ cfg.effectHoldMinSteps >= 1)
    => EffectOutputsDefined

\* effectEvolveMinSteps = 1: an evolve phase of 0 steps has made currentOutput
\* of generator 0 and the entry of Scale it was written to undefined
C15_Witness ==
  /\ last[1] = "Effect"
  /\ cfg.effectActive
  /\ cfg.effectEvolveMinSteps = 1
  /\ v.Effect[0].numSteps = 0
  /\ v.Effect[0].currentStep = 1
  /\ IsNaN(v.Effect[0].currentOutput)
  /\ IsNaN(v.Scale[0].R)

---------------------------------------------------------------------------
(* Claims about ApplyOutputScaling (SpecScaling) *)

Scaled == last = <<"ApplyOutputScaling">>

\* floor(x + 1/2) of a rational x >= 0
RoundHalfUp(x) == (2 * x[1] + x[2]) \div (2 * x[2])

RatClamp(x, low, high) == IF RatLE(x, low) THEN low ELSE IF RatLE(high, x) THEN high ELSE x

\* brightness / 255 * onoffFactor
IntensityFactor == Rat(v.brightness * v.onoffFactor, BrightMax * OnOffQ)

\* round-half-up(clamp(Colors[i].c * Scale[i].c, 0, 255) * brightness/255 * onoffFactor)
DocumentedByte(i, ch) ==
  RoundHalfUp(RatMul(RatClamp(RatMul(<<v.Colors[i][ch], 1>>, v.Scale[i][ch]),
                              <<0, 1>>, <<ByteMax, 1>>),
                     IntensityFactor))

\* C16 (as stated): for any Colors, any Scale, any live brightness and any
\* on/off factor every byte ApplyOutputScaling writes is the value it computed,
\* in [0,255] without wrap-around, and with onoffFactor = 0 every byte of
\* Pixels is 0 regardless of colour and scale.
C16_Original ==
  Scaled =>
    \A i \in 0..(v.Count - 1) : \A ch \in Chan :
      /\ v.Pixels[i][ch] \in 0..ByteMax
      /\ ~IsNaN(v.Scale[i][ch])
           => v.Pixels[i][ch] = ScaledInt(v.Colors[i][ch], v.Scale[i][ch],
                                          v.brightness, v.onoffFactor)
      /\ v.onoffFactor = 0 => v.Pixels[i][ch] = 0

\* the same for the pixels and channels whose Scale entry is a defined number
C16_DefinedScale ==
  Scaled =>
    \A i \in 0..(v.Count - 1) : \A ch \in Chan :
      ~IsNaN(v.Scale[i][ch])
        => /\ v.Pixels[i][ch] \in 0..ByteMax
           /\ v.Pixels[i][ch] = ScaledInt(v.Colors[i][ch], v.Scale[i][ch],
                                          v.brightness, v.onoffFactor)
           /\ v.onoffFactor = 0 => v.Pixels[i][ch] = 0

\* on/off factor 0 and an undefined Scale entry: the byte written is 255
C16_Witness ==
  /\ Scaled
  /\ v.onoffFactor = 0
  /\ IsNaN(v.Scale[0].R)
  /\ v.Colors[0].R > 0
  /\ v.Pixels[0].R = ByteMax
  /\ ~IsNaN(v.Scale[0].G) /\ v.Pixels[0].G = 0

---------------------------------------------------------------------------
(* Claims about LED::Update's two gates and about change tracking (Spec) *)

\* the step is a call of LED::Update; last' records which gates fired
UpdateStep == last'[1] = "LED::Update"

RenderingFired == last'[2]

EffectFired == last'[3]

\* what the rendering stage writes, and what the effect stage writes
RenderingUntouched ==
  /\ v'.brightness = v.brightness /\ v'.onoffFactor = v.onoffFactor
  /\ v'.colorOne = v.colorOne /\ v'.colorTwo = v.colorTwo
  /\ v'.Colors = v.Colors /\ v'.Pixels = v.Pixels

EffectUntouched == v'.Scale = v.Scale /\ v'.Effect = v.Effect

\* C18: the rendering gate fires exactly when the time since
\* processingLastExecutionMs exceeds processingIntervalMs, the effect gate
\* exactly when the time since effectLastExecutionMs exceeds effectIntervalMs;
\* a firing sets only its own timestamp, and a stage whose gate did not fire
\* leaves what it writes untouched whatever the other gate did.
C18_GatesIndependent ==
  [][UpdateStep =>
       /\ RenderingFired <=> (now - s.processingLastExecutionMs > cfg.processingIntervalMs)
       /\ EffectFired <=> (now - s.effectLastExecutionMs > cfg.effectIntervalMs)
       /\ s'.processingLastExecutionMs =
            IF RenderingFired THEN now ELSE s.processingLastExecutionMs
       /\ s'.effectLastExecutionMs =
            IF EffectFired THEN now ELSE s.effectLastExecutionMs
       /\ ~RenderingFired => RenderingUntouched
       /\ ~EffectFired => EffectUntouched]_vars

\* a tick in which only the rendering gate fired: the Fader has moved colour
\* one, the effect generators are as Init left them
C18_Witness ==
  /\ last = <<"LED::Update", TRUE, FALSE>>
  /\ s.processingLastExecutionMs = now
  /\ s.effectLastExecutionMs < now
  /\ v.colorOne.R > 0
  /\ v.Effect[0] = EffectDefaults

\* ticks in which only the effect gate, both gates and neither gate fired
C18_OnlyEffect ==
  /\ last = <<"LED::Update", FALSE, TRUE>>
  /\ s.effectLastExecutionMs = now /\ s.processingLastExecutionMs < now
  /\ v.colorOne.R = 0 /\ v.Effect[0].currentStep = 1 /\ v.Effect[0].hold

C18_Both ==
  /\ last = <<"LED::Update", TRUE, TRUE>>
  /\ v.colorOne.R > 0 /\ v.Effect[0].hold

C18_Neither ==
  /\ last = <<"LED::Update", FALSE, FALSE>>
  /\ now > 0
  /\ v = start

\* C19: in one LED::Update call a stage whose interval has not elapsed changes
\* neither what it writes nor its timestamp; a stage whose interval has
\* elapsed, by however many intervals, runs once: the timestamp becomes the
\* current time, every faded channel takes one Fader step, every effect
\* generator advances by one step and channel G of Scale shifts by one position.
C19_AtMostOnce ==
  [][UpdateStep =>
       /\ ~RenderingFired =>
            RenderingUntouched /\ s'.processingLastExecutionMs = s.processingLastExecutionMs
       /\ ~EffectFired =>
            EffectUntouched /\ s'.effectLastExecutionMs = s.effectLastExecutionMs
       /\ RenderingFired =>
            /\ s'.processingLastExecutionMs = now
            /\ \A id \in FadedChannelIds :
                 LET ch == FadedChannel(id, cfg, v', v)
                 IN  ch[1] = constrain(StepRule(ch[2], ch[3], ch[4]), 0, ch[5])
       /\ EffectFired =>
            /\ s'.effectLastExecutionMs = now
            /\ cfg.effectActive =>
                 /\ \A n \in 0..3 :
                      v'.Effect[n].currentStep =
                        IF Replans(n) THEN 1 ELSE v.Effect[n].currentStep + 1
                 /\ ShiftedBackward("G", v'.Effect[1].currentOutput)]_vars

\* LED::Update called for the first time 33 ms after Init, more than three
\* intervals of 10 ms: one Fader step and one effect step have been taken
C19_Witness ==
  /\ last = <<"LED::Update", TRUE, TRUE>>
  /\ cfg = CoreInitConfig
  /\ now = 33
  /\ now > 3 * cfg.processingIntervalMs /\ now > 3 * cfg.effectIntervalMs
  /\ s.processingLastExecutionMs = now /\ s.effectLastExecutionMs = now
  /\ v.colorOne.R = cfg.colorIncrement
  /\ \A n \in 0..3 : v.Effect[n].currentStep = 1

\* the step is a call of a setter that changed the Config
SetterStep ==
  /\ last'[1] \in {"LED::Set", "SetStagingBrightness", "update", "SET PARAM",
                   "SET GRADIENT MODE"}
  /\ cfg' # cfg

\* C20 (as stated): changeCounter increases by exactly 1 for each logical change
\* made through a setter, and after the call lastModifiedMs is the time of the
\* change.
C20_Original ==
  [][SetterStep => /\ cfg'.changeCounter = cfg.changeCounter + 1
                   /\ cfg'.lastModifiedMs = now]_vars

\* what the code does: LED::Set(BRIGHTNESS, value) counts 2, every other setter 1
C20_SetBrightnessTwice ==
  [][SetterStep => /\ cfg'.changeCounter =
                        cfg.changeCounter +
                          (IF last'[1] = "LED::Set" /\ last'[2] = "BRIGHTNESS" THEN 2 ELSE 1)
                   /\ cfg'.lastModifiedMs = now]_vars

\* one LED::Set(BRIGHTNESS, 128) after Init: the counter is 2
C20_Witness ==
  /\ last = <<"LED::Set", "BRIGHTNESS", 128>>
  /\ calls = 1
  /\ cfg.brightnessStaging = 128 * BrightQ
  /\ cfg.changeCounter = 2

---------------------------------------------------------------------------
(* Claims about boot and persistence (SpecSettings) *)

\* the step is a call of LED::Init; last' records what it returned
LEDInitStep == last'[1] = "LED::Init"

\* C24: when Vars::Count is 0 or exceeds the capacity, LED::Init returns false,
\* no field of Config, Vars or State has changed and the hardware has not been
\* initialised; with a Count in 1 .. capacity it returns true and the hardware
\* is initialised.
C24_InitRefuses ==
  [][LEDInitStep =>
       IF v.Count = 0 \/ v.Count > Capacity
         THEN /\ last'[2] = FALSE
              /\ cfg' = cfg /\ v' = v /\ s' = s
              /\ hardware' = hardware
         ELSE last'[2] = TRUE /\ hardware']_vars

\* LED::Init was refused for a Count of capacity + 1: the singletons are as
\* constructed and the hardware is untouched
C24_Witness ==
  /\ last = <<"LED::Init", FALSE>>
  /\ v.Count = Capacity + 1
  /\ v = start
  /\ cfg = ConfigDefaults
  /\ s = StateDefaults
  /\ ~hardware

\* the step is a call of LoadConfig; last' records what it returned
LoadConfigStep == last'[1] = "LoadConfig"

\* the stored blob is missing, too small, too large, of another version, of
\* another payload size, or its checksum does not match its payload
Unloadable(blob) ==
  \/ blob.total = 0
  \/ blob.total < kSketchVersionLen + ChecksumLen
  \/ blob.total > kMaxBlobBuffer
  \/ blob.version # CONFIG_VERSION
  \/ blob.total # kSketchVersionLen + SizeofConfig + ChecksumLen
  \/ blob.csum # simpleChecksum(ConfigImage(blob.payload))

\* C25: whenever the stored blob is missing, too small, too large, of a
\* different version, of a different payload size or fails its checksum,
\* LoadConfig returns false; and whenever LoadConfig returns false the Config
\* singleton and the last-saved counter are exactly as before the call.
C25_FailedLoadKeepsConfig ==
  [][LoadConfigStep =>
       /\ Unloadable(prefs) => last'[2] = FALSE
       /\ last'[2] = FALSE => cfg' = cfg /\ g_lastSavedCounter' = g_lastSavedCounter]_vars

\* a load that failed on the checksum alone, after the Config had been changed
\* once: the change is still there and nothing of the payload is
C25_Witness ==
  /\ last = <<"LoadConfig", FALSE>>
  /\ prefs.version = CONFIG_VERSION
  /\ prefs.read = prefs.total
  /\ prefs.total = kSketchVersionLen + SizeofConfig + ChecksumLen
  /\ prefs.csum # simpleChecksum(ConfigImage(prefs.payload))
  /\ prefs.payload.changeCounter = 7
  /\ cfg.gradientInvertColors
  /\ cfg.changeCounter = 1
  /\ cfg.brightnessStaging = 0
  /\ g_lastSavedCounter = 0

\* the step is a call of SETTINGS::Update; last' records whether it tried to
\* save and whether the write succeeded
SettingsUpdateStep == last'[1] = "SETTINGS::Update"

SaveTried == last'[2]

SaveWritten == last'[3]

\* a < b, both read as unsigned values
U32Less(a, b) == ~U32GE(a, b)

\* C26: SETTINGS::Update tries to save exactly when changeCounter differs from
\* the last saved counter and the unsigned difference millis() - lastModifiedMs
\* is at least the debounce interval; it writes nothing otherwise; it does not
\* save while less than the debounce interval has passed since a
\* MarkChangeInConfig that was the last writer of lastModifiedMs; and a
\* successful save leaves the last saved counter equal to changeCounter, so no
\* further save happens until changeCounter changes.
C26_DebouncedSave ==
  [][SettingsUpdateStep =>
       /\ SaveTried <=>
            /\ cfg.changeCounter # g_lastSavedCounter
            /\ U32GE(U32Sub(now, cfg.lastModifiedMs), g_autoSaveDelayMs)
       /\ SaveWritten => SaveTried
       /\ ~SaveWritten => prefs' = prefs /\ g_lastSavedCounter' = g_lastSavedCounter
       /\ SaveWritten =>
            /\ prefs'.payload = cfg
            /\ g_lastSavedCounter' = cfg'.changeCounter
       /\ (/\ stamp.by = "MarkChangeInConfig"
           /\ U32Less(U32Sub(now, stamp.at), g_autoSaveDelayMs)) => ~SaveTried
       /\ cfg.changeCounter = g_lastSavedCounter => ~SaveTried]_vars

\* a change marked exactly one debounce interval ago has just been saved
C26_Witness ==
  /\ last = <<"SETTINGS::Update", TRUE, TRUE>>
  /\ stamp.by = "MarkChangeInConfig"
  /\ U32Sub(now, stamp.at) = g_autoSaveDelayMs
  /\ cfg.lastModifiedMs = stamp.at
  /\ prefs.payload = cfg
  /\ g_lastSavedCounter = cfg.changeCounter
  /\ cfg.changeCounter = 1

\* C27: the SAVE command leaves changeCounter different from the last saved
\* counter; and as long as ProvokeImmediateSaveOfConfig is the last writer of
\* lastModifiedMs, its change is not saved yet and the debounce interval is at
\* most one hour, every SETTINGS::Update call tries to save, whatever millis()
\* was at the SAVE command, uptimes below one hour included.
C27_ImmediateSave ==
  [][/\ last'[1] = "SAVE" => cfg'.changeCounter # g_lastSavedCounter'
     /\ (/\ SettingsUpdateStep
         /\ stamp.by = "ProvokeImmediateSaveOfConfig"
         /\ cfg.changeCounter # g_lastSavedCounter
         /\ g_autoSaveDelayMs <= HourMs) => SaveTried]_vars

\* SAVE at an uptime below one hour with a debounce of one hour:
\* lastModifiedMs wrapped below zero to 2^32 - 3600000 + millis(), and the
\* Update call at the same millisecond has saved
C27_Witness ==
  /\ last = <<"SETTINGS::Update", TRUE, TRUE>>
  /\ stamp.by = "ProvokeImmediateSaveOfConfig"
  /\ stamp.at >= 0 /\ stamp.at < HourMs
  /\ now = stamp.at
  /\ cfg.lastModifiedMs = stamp.at - HourMs
  /\ cfg.lastModifiedMs < 0
  /\ g_autoSaveDelayMs = HourMs
  /\ g_lastSavedCounter = cfg.changeCounter

---------------------------------------------------------------------------
(* Claims about the order of the stages and the gate comparison            *)
(* (SpecUpdate, Spec)                                                      *)

\* the Vars the rendering stages of this step worked on: the live values as
\* the step's Fade left them, Scale as it was before the step
RenderedFrom ==
  [v EXCEPT !.colorOne = v'.colorOne, !.colorTwo = v'.colorTwo,
            !.brightness = v'.brightness, !.onoffFactor = v'.onoffFactor]

\* C29: in an LED::Update call whose rendering gate fires, the live values
\* take one Fade step, Colors is the gradient of the live values that Fade
\* step produced, and Pixels is the scaling of those Colors with the new live
\* brightness and on/off factor and with Scale as it was before the call, also
\* when the effect gate fires in the same call and changes Scale.
C29_StageOrder ==
  [][(UpdateStep /\ RenderingFired) =>
       /\ RenderedFrom = [FadeVars(cfg, v) EXCEPT !.Colors = v.Colors]
       /\ v'.Colors = ComputeGradient(cfg, RenderedFrom, cfg.gradientMode,
                                      cfg.gradientInvertColors)
       /\ \E ub \in UndefinedBytes(v) :
            v'.Pixels = ApplyOutputScaling([RenderedFrom EXCEPT !.Colors = v'.Colors], ub)
       /\ EffectFired =>
            \E draws \in DrawsFor(cfg, v, TRUE) :
              v'.Scale = Effect(cfg, v, draws).Scale]_vars

\* both gates fired, the Fade step of this call moved colour one, the pixel
\* shows the colour of this call's Fade step, and the effect changed the Scale
\* entry of that pixel afterwards: scaled with the new entry the byte differs
C29_Witness ==
  /\ last[1] = "LED::Update" /\ last[2] /\ last[3]
  /\ v.colorOne.R = 200 * ColorQ
  /\ v.Colors[0].R = 190
  /\ v.Pixels[0].R = v.Colors[0].R
  /\ v.Scale[0].R # <<1, 1>>
  /\ ApplyOutputScaling(v, 0)[0].R < v.Pixels[0].R

\* C30 as stated: a gate fires whenever the elapsed time is at least its
\* interval, the elapsed time equal to the interval included.
C30_Original ==
  [][UpdateStep =>
       /\ (now - s.processingLastExecutionMs >= cfg.processingIntervalMs)
            => RenderingFired
       /\ (now - s.effectLastExecutionMs >= cfg.effectIntervalMs)
            => EffectFired]_vars

\* what the code does: a gate fires when the elapsed time is at least its
\* interval plus one millisecond
C30_StrictlyGreater ==
  [][UpdateStep =>
       /\ RenderingFired <=>
            (now - s.processingLastExecutionMs >= cfg.processingIntervalMs + 1)
       /\ EffectFired <=>
            (now - s.effectLastExecutionMs >= cfg.effectIntervalMs + 1)]_vars

\* LED::Update called exactly one interval after the last firing: no gate fired
C30_Witness ==
  /\ last = <<"LED::Update", FALSE, FALSE>>
  /\ now - s.processingLastExecutionMs = cfg.processingIntervalMs
  /\ now - s.effectLastExecutionMs = cfg.effectIntervalMs
  /\ now > 0

---------------------------------------------------------------------------
(* Claims about the setters: change tracking, clamping and ranges          *)
(* (SpecSettings, SpecCommands)                                            *)

\* a member of the Config other than the two tracking members changed
ConfigFieldChanged ==
  \E f \in (DOMAIN cfg) \ {"changeCounter", "lastModifiedMs"} : cfg'[f] # cfg[f]

\* C21 as stated: every operation that changes a Config member increments
\* changeCounter and sets lastModifiedMs to the current time in the same
\* operation.  LoadConfig, which replaces the Config with the stored one,
\* tracking members included, is not counted as such an operation.
C21_Original ==
  [][(ConfigFieldChanged /\ ~LoadConfigStep) =>
       /\ cfg'.changeCounter # cfg.changeCounter
       /\ cfg'.lastModifiedMs = now]_vars

\* what holds for the console commands and the bridge's updates: a command
\* that changes a Config member increments changeCounter by one and sets
\* lastModifiedMs to the current time
C21_CommandsMark ==
  [][ConfigFieldChanged =>
       /\ cfg'.changeCounter = cfg.changeCounter + 1
       /\ cfg'.lastModifiedMs = now]_vars

\* LED::Init() has written the staged colours, brightness and on/off target,
\* and changeCounter is still 0
C21_Witness ==
  /\ last = <<"LED::Init", TRUE>>
  /\ cfg.brightnessStaging = BrightMax
  /\ cfg.onoffStaging = OnOffQ
  /\ cfg.colorOneStaging = PixF(255, 0, 0, 0)
  /\ cfg.changeCounter = 0
  /\ cfg.lastModifiedMs = 0

\* the step is the console command cmd
CommandStep(cmd) == last'[1] = cmd

\* the clamping setters given a number outside the legal range store the
\* nearest legal value
ClampingSettersClamp ==
  /\ (CommandStep("SET BRIGHTNESS") /\ last'[2] < 0) => cfg'.brightnessStaging = 0
  /\ (CommandStep("SET BRIGHTNESS") /\ last'[2] > ByteMax)
       => cfg'.brightnessStaging = BrightMax
  /\ (CommandStep("SET COLOR") /\ last'[3] = <<300, -5, 0, 0>>)
       => (IF last'[2] = "ONE" THEN cfg'.colorOneStaging ELSE cfg'.colorTwoStaging)
            = PixF(255, 0, 0, 0)
  /\ (CommandStep("SET GRADIENT") /\ last'[2] = "PADDINGBEGIN" /\ last'[3] # FloatNaN)
       => cfg'.gradientPaddingBegin = constrain(last'[3], 0, (4 * GradQ) \div 10)
  /\ (CommandStep("SET GRADIENT") /\ last'[2] = "PADDINGVALUE" /\ last'[3] # FloatNaN)
       => cfg'.gradientPaddingValue = constrain(last'[3], 0, GradQ)
  /\ CommandStep("SET GRADIENT EDGE")
       => cfg'.gradientMiddleEdgeSize = constrain(last'[2], 0, GradQ \div 2)
  /\ CommandStep("SET GRADIENT CENTER")
       => cfg'.gradientMiddleCenterSize =
            Min2(constrain(last'[2], 0, GradQ),
                 Max2(GradQ - 2 * cfg.gradientMiddleEdgeSize, 0))

\* C22 as stated: a setter given an out-of-range value stores the nearest
\* legal value and does not reject the request; for SET PARAM 1..11 with a
\* number that is not > 0 the request is accepted and the member is > 0.
C22_Original ==
  [][/\ ClampingSettersClamp
     /\ (CommandStep("SET PARAM") /\ last'[3] # FloatNaN /\ last'[3] <= 0)
          => (last'[4] /\ cfg'[ParamField(last'[2])] > 0)]_vars

\* what the code does: the clamping setters clamp, and SET PARAM with a number
\* that is not > 0 is rejected and leaves the Config as it was
C22_ParamRejects ==
  [][/\ ClampingSettersClamp
     /\ (CommandStep("SET PARAM") /\ last'[3] # FloatNaN /\ last'[3] <= 0)
          => (~last'[4] /\ cfg' = cfg)]_vars

\* "SET PARAM 1 0" after a brightness change: rejected, the increment is the
\* default and the change counter did not move
C22_Witness ==
  /\ last = <<"SET PARAM", 1, 0, FALSE>>
  /\ cfg.colorIncrement = ColorQ
  /\ cfg.brightnessStaging = 0
  /\ cfg.changeCounter = 1

\* the documented ranges of the staged configuration
StagedInRange ==
  /\ cfg.brightnessStaging >= 0 /\ cfg.brightnessStaging <= BrightMax
  /\ cfg.onoffStaging \in {0, OnOffQ}
  /\ \A ch \in Chan :
       /\ cfg.colorOneStaging[ch] >= 0 /\ cfg.colorOneStaging[ch] <= ColorMax
       /\ cfg.colorTwoStaging[ch] >= 0 /\ cfg.colorTwoStaging[ch] <= ColorMax
  /\ cfg.gradientPaddingBegin >= 0 /\ cfg.gradientPaddingBegin <= (4 * GradQ) \div 10
  /\ cfg.gradientPaddingValue >= 0 /\ cfg.gradientPaddingValue <= GradQ
  /\ cfg.colorIncrement > 0 /\ cfg.brightnessIncrement > 0 /\ cfg.onoffIncrement > 0
  /\ cfg.processingIntervalMs > 0 /\ cfg.effectIntervalMs > 0

\* C23 as stated: after Init and any sequence of console commands and bridge
\* updates the staged configuration is within its documented ranges.
C23_Original == StagedInRange

\* what holds: every ranged member is within its range or is a NaN that a
\* command with the argument "nan" stored
C23_InRangeOrNaN ==
  /\ cfg.brightnessStaging >= 0 /\ cfg.brightnessStaging <= BrightMax
  /\ cfg.onoffStaging \in {0, OnOffQ}
  /\ \A ch \in Chan :
       /\ cfg.colorOneStaging[ch] >= 0 /\ cfg.colorOneStaging[ch] <= ColorMax
       /\ cfg.colorTwoStaging[ch] >= 0 /\ cfg.colorTwoStaging[ch] <= ColorMax
  /\ \/ cfg.gradientPaddingBegin = FloatNaN
     \/ cfg.gradientPaddingBegin >= 0 /\ cfg.gradientPaddingBegin <= (4 * GradQ) \div 10
  /\ \/ cfg.gradientPaddingValue = FloatNaN
     \/ cfg.gradientPaddingValue >= 0 /\ cfg.gradientPaddingValue <= GradQ
  /\ cfg.colorIncrement = FloatNaN \/ cfg.colorIncrement > 0
  /\ cfg.brightnessIncrement = FloatNaN \/ cfg.brightnessIncrement > 0
  /\ cfg.onoffIncrement = FloatNaN \/ cfg.onoffIncrement > 0
  /\ cfg.processingIntervalMs > 0 /\ cfg.effectIntervalMs > 0

\* "SET PARAM 1 nan" was accepted and "SET GRADIENT PADDINGBEGIN nan" after it
\* stored a NaN too: the colour increment and the padding are no numbers
C23_Witness ==
  /\ last = <<"SET GRADIENT", "PADDINGBEGIN", FloatNaN>>
  /\ cfg.colorIncrement = FloatNaN
  /\ cfg.gradientPaddingBegin = FloatNaN
  /\ cfg.changeCounter = 2

\* the bytes of the SET COLOR command of this step, as its response prints them
ColorArgBytes ==
  PixF(constrain(last'[3][1], 0, ByteMax), constrain(last'[3][2], 0, ByteMax),
       constrain(last'[3][3], 0, ByteMax), constrain(last'[3][4], 0, ByteMax))

\* the staged colour the SET COLOR command of this step addressed
ColorArgTarget == IF last'[2] = "ONE" THEN cfg'.colorOneStaging ELSE cfg'.colorTwoStaging

\* C28 as stated: after SET COLOR ONE / TWO r g b w with each value in 0..255
\* the staged colour of that target equals (r, g, b, w).
C28_Original ==
  [][(CommandStep("SET COLOR") /\ \A k \in 1..4 : last'[3][k] \in 0..ByteMax)
       => ColorArgTarget = ColorArgBytes]_vars

\* what the code does: the staged colour is the colour of the argument's hue
\* and saturation at full value, in the mirror's current RGB / RGBW mode; it
\* equals the argument when that has no white part and a channel at 255 and
\* the mode is RGB
C28_ThroughHueAndSaturation ==
  [][CommandStep("SET COLOR") =>
       LET hsv == PixelToHsv(ColorArgBytes)
       IN  /\ ColorArgTarget = MirrorColorToPixel(hsv.hue[1], hsv.saturation[1], mirror.rgbw)
           /\ (/\ ~mirror.rgbw
               /\ ColorArgBytes.W = 0
               /\ \E ch \in {"R", "G", "B"} : ColorArgBytes[ch] = ColorMax)
                => ColorArgTarget = ColorArgBytes]_vars

\* "SET COLOR TWO 128 0 0 0" stored (255, 0, 0, 0) ...
C28_Witness ==
  /\ last = <<"SET COLOR", "TWO", <<128, 0, 0, 0>>>>
  /\ cfg.colorTwoStaging = PixF(255, 0, 0, 0)
  /\ ~mirror.rgbw

\* ... and "SET COLOR ONE 0 0 0 0" stored white
C28_BlackIsWhite ==
  /\ last = <<"SET COLOR", "ONE", <<0, 0, 0, 0>>>>
  /\ cfg.colorOneStaging = PixF(255, 255, 255, 0)

---------------------------------------------------------------------------
(* Claims about the effect gate's frame (SpecUpdate) *)

\* C31: an LED::Update call whose effect gate fires leaves every Config member
\* as it was; Colors, Pixels, the live colours, the live brightness, the
\* on/off factor and processingLastExecutionMs are what the rendering gate of
\* the same call makes of them, unchanged if it did not fire; only Scale, the
\* effect records and effectLastExecutionMs are the effect's.
C31_EffectFrame ==
  [][(UpdateStep /\ EffectFired) =>
       /\ cfg' = cfg
       /\ v'.Count = v.Count
       /\ s'.active = s.active
       /\ s'.effectLastExecutionMs = now
       /\ ~RenderingFired =>
            RenderingUntouched /\ s'.processingLastExecutionMs = s.processingLastExecutionMs
       /\ RenderingFired =>
            \E ub \in UndefinedBytes(v) :
              LET rendered == Processing(cfg, v, ub)
              IN  /\ v'.Colors = rendered.Colors /\ v'.Pixels = rendered.Pixels
                  /\ v'.colorOne = rendered.colorOne /\ v'.colorTwo = rendered.colorTwo
                  /\ v'.brightness = rendered.brightness
                  /\ v'.onoffFactor = rendered.onoffFactor]_vars

\* only the effect gate fired, for the second time: Scale and the effect
\* records have changed, nothing else has moved since Init
C31_Witness ==
  /\ last = <<"LED::Update", FALSE, TRUE>>
  /\ v.Scale[0].R # <<1, 1>>
  /\ v.Effect[0].currentStep = 2
  /\ s.effectLastExecutionMs = now
  /\ s.processingLastExecutionMs = 0
  /\ v.Colors = start.Colors /\ v.Pixels = start.Pixels
  /\ v.colorOne = start.colorOne /\ v.brightness = start.brightness
  /\ cfg.changeCounter = 0


---------------------------------------------------------------------------
(* Claims about the console's line buffer (SpecProcess) *)

\* the commands evaluated so far that came from an input line of more than
\* CMD_BUFFER_CAPACITY - 1 characters
FromOverlongLine ==
  {i \in 1..Len(console.evaluated) :
     Len(console.evaluated[i].line) > CMD_BUFFER_CAPACITY - 1}

\* C32 as stated: an input line longer than CMD_BUFFER_CAPACITY - 1 characters
\* is discarded as a whole; no part of it, neither its beginning nor the
\* characters after the overflow up to the next newline, is evaluated.
C32_Original == FromOverlongLine = {}

\* C32, what the code does: what is evaluated at a newline is the end of the
\* line, the characters typed after the last overflow (the line's last
\* Len(line) % CMD_BUFFER_CAPACITY characters); the beginning of an overlong
\* line is never evaluated.
C32_TailEvaluated ==
  \A i \in 1..Len(console.evaluated) :
     LET e == console.evaluated[i]
         kept == Len(e.line) % CMD_BUFFER_CAPACITY
     IN  /\ kept > 0
         /\ e.text = SubSeq(e.line, Len(e.line) - kept + 1, Len(e.line))

\* 96 filler characters, then SAVE and a newline: SAVE was evaluated and bumped
\* the change counter
C32_Witness ==
  /\ FromOverlongLine # {}
  /\ console.evaluated[1].text = SAVE
  /\ Len(console.evaluated[1].line) = CMD_BUFFER_CAPACITY + 4
  /\ cfg.changeCounter = 1
  /\ console.serial = <<>>


---------------------------------------------------------------------------
(* Claims about the scheduled restart (SpecProcess) *)

ProcessStep == last'[1] = "Process"

\* this Process call accepted a SYSTEM RESET
ResetAccepted == console'.requests > console.requests

\* this Process call restarted the device
Restarted == console'.restarts = console.restarts + 1

\* a restart was pending when this Process call reached ProcessPendingRestart
RestartArmed == console.systemRestartPending \/ ResetAccepted

\* C33 as stated: after SYSTEM RESET is accepted at time t, the device
\* restarts on the first Process call at or after t + 10000 ms.  Here t is the
\* time of the request that armed the pending restart.
C33_Original ==
  [][(ProcessStep /\ RestartArmed
        /\ uptime.ms - console'.firstRequestedAt >= RestartDelayMs) => Restarted]_vars

\* C33: a Process call restarts the device exactly when a restart is pending
\* and at least 10000 ms have passed since the most recent accepted SYSTEM
\* RESET (a request made while one is pending replaces the deadline), also
\* when millis() wraps between request and deadline; a restart clears the
\* pending flag, nothing but a Process call restarts, and there are never more
\* restarts than accepted requests.
C33_RestartAtDeadline ==
  [][/\ ProcessStep =>
          /\ Restarted <=> (RestartArmed
                              /\ uptime.ms - console'.requestedAt >= RestartDelayMs)
          /\ console'.restarts \in {console.restarts, console.restarts + 1}
          /\ Restarted => ~console'.systemRestartPending
          /\ ~Restarted => (console'.systemRestartPending <=> RestartArmed)
     /\ ~ProcessStep => UNCHANGED console
     /\ console'.restarts <= console'.requests]_vars

\* requested 5 s before millis() wraps to 0, restarted 10000 ms later at
\* millis() = 5000
C33_Witness ==
  /\ last[1] = "Process"
  /\ console.restarts = 1
  /\ console.requests = 1
  /\ ~console.systemRestartPending
  /\ console.systemRestartDeadlineMs = 5000
  /\ console.requestedAt = 0
  /\ uptime.ms = RestartDelayMs
  /\ now = 5000


---------------------------------------------------------------------------
(* Claims about the gates and the wrap of millis() (SpecWrap) *)

\* C35: across the wrap of the 32-bit clock the unsigned differences
\* millis() - processingLastExecutionMs and millis() - effectLastExecutionMs
\* equal the real time elapsed since the stage last ran, so at every
\* LED::Update call a gate fires exactly when more than its interval has
\* really elapsed: never early, and still after the wrap.
C35_GatesAcrossWrap ==
  [][UpdateStep =>
       /\ U32Sub(now, s.processingLastExecutionMs) = uptime.ms - uptime.rendered
       /\ U32Sub(now, s.effectLastExecutionMs) = uptime.ms - uptime.effect
       /\ RenderingFired <=> (uptime.ms - uptime.rendered > cfg.processingIntervalMs)
       /\ EffectFired <=> (uptime.ms - uptime.effect > cfg.effectIntervalMs)]_vars

\* LED::Init() 15 ms before the wrap; both gates fire 7 ms after it, on
\* timestamps taken before it
C35_Witness ==
  /\ last = <<"LED::Update", TRUE, TRUE>>
  /\ now = 7
  /\ uptime = [ms |-> 22, rendered |-> 22, effect |-> 22]
  /\ s.processingLastExecutionMs = 7
  /\ s.effectLastExecutionMs = 7


---------------------------------------------------------------------------
(* Claims about the save/load round trip (SpecSettings) *)

\* the storage holds a blob exactly as SaveStructPref() writes it for the
\* Config in its payload
HoldsSavedConfig == prefs.total # 0 /\ prefs = SaveStructPref(prefs.payload)

\* C36: a successful save stores the blob of the Config singleton; a
\* LoadConfig on storage that holds a saved blob returns true, leaves the
\* Config equal to the saved one, sets the last-saved counter to its
\* changeCounter and does not touch the storage, so that no SETTINGS::Update
\* is due, and the Update call that follows the load does not save.
C36_RoundTrip ==
  [][/\ (SettingsUpdateStep /\ SaveWritten) => prefs' = SaveStructPref(cfg)
     /\ (LoadConfigStep /\ HoldsSavedConfig) =>
          /\ last'[2] = TRUE
          /\ cfg' = prefs.payload
          /\ g_lastSavedCounter' = prefs.payload.changeCounter
          /\ prefs' = prefs
          /\ ~SaveDue(cfg', g_lastSavedCounter', g_autoSaveDelayMs', now')
     /\ (SettingsUpdateStep /\ last[1] = "LoadConfig" /\ last[2]) => ~SaveTried]_vars

\* SAVE, a successful SETTINGS::Update, LoadConfig and another Update: the
\* Config is the one that was saved and the second Update did not save
C36_Witness ==
  /\ last = <<"SETTINGS::Update", FALSE, FALSE>>
  /\ calls = 4
  /\ stamp.by = "LoadConfig"
  /\ HoldsSavedConfig
  /\ cfg = prefs.payload
  /\ cfg.changeCounter = 1
  /\ g_lastSavedCounter = 1


---------------------------------------------------------------------------
(* Claims about eventual persistence (SpecPersist) *)

\* the Config singleton as it is now is what the storage holds
Persisted ==
  /\ g_lastSavedCounter = cfg.changeCounter
  /\ prefs.total # 0
  /\ prefs = SaveStructPref(cfg)

\* C37: once the changes have stopped, with SETTINGS::Update called again and
\* again and writes succeeding in the end, every marked change leads to a
\* state in which the Config with the latest changeCounter is stored, and it
\* stays stored; an Update whose write fails leaves the last-saved counter and
\* the storage as they were, so that the save is still due at the next call.
C37_EventuallyPersisted ==
  /\ (cfg.changeCounter # g_lastSavedCounter) ~> Persisted
  /\ <>[](g_lastSavedCounter = cfg.changeCounter /\ (cfg.changeCounter # 0 => Persisted))
  /\ [][(SettingsUpdateStep /\ SaveTried /\ ~SaveWritten) =>
          /\ g_lastSavedCounter' = g_lastSavedCounter
          /\ prefs' = prefs
          /\ SaveDue(cfg', g_lastSavedCounter', g_autoSaveDelayMs', now')]_vars

\* the second change, marked by TOGGLE GRADIENT_INVERT, has been written
\* after its debounce interval
C37_Witness ==
  /\ last = <<"SETTINGS::Update", TRUE, TRUE>>
  /\ Persisted
  /\ cfg.changeCounter = 2
  /\ stamp.by = "MarkChangeInConfig"
  /\ U32GE(U32Sub(now, stamp.at), g_autoSaveDelayMs)


---------------------------------------------------------------------------
(* Claims about the settled state (SpecSettle) *)

\* the four live values, which Fade steps toward their staged targets
LiveValues(vv) == <<vv.brightness, vv.onoffFactor, vv.colorOne, vv.colorTwo>>

\* every staged target lies in its legal range
StagedTargetsInRange == TargetsInRange(cfg, v)

\* every live value equals its staged target
Settled == AllAtTarget(cfg, v)

=============================================================================
